---------------------------- MODULE Spec2Model ----------------------------
(***************************************************************************)
(* Model of the linked-claims extractor: the claim filter and the LLM      *)
(* response parser of ClaimExtractor, and the claim signer of KeyManager   *)
(* and LinkedTrustClient.                                                  *)
(*                                                                         *)
(* Text is a sequence of one-character strings, so that substring          *)
(* matching, lower-casing, JSON serialisation and base64 are computed      *)
(* character by character as the Python code computes them.                *)
(*                                                                         *)
(* A JSON scalar is a record [t, s]: t is "str", "num" or "null" and s is  *)
(* the text of the value.  A dict is a sequence of pairs [k, v] in         *)
(* insertion order, k a text and v a scalar.  An element of a parsed list  *)
(* is a record [t, m, src]: t = "obj" for a dict (m its pairs), "list" for *)
(* a nested list (src its text), "str" for a string.                       *)
(*                                                                         *)
(* The text of an LLM response is a sequence of tokens [c, m]: c = "x" is  *)
(* a character of prose, "[", "]" and "," are themselves, and c = "{" is   *)
(* the text of a JSON object (the dict m) that holds no bracket.           *)
(***************************************************************************)
EXTENDS Integers, Sequences, FiniteSets, TLC

VARIABLES
    fpc,        \* filter run: "start", "done", then "again" or "cased"
    fin,        \* the list handed to _filter_claims
    fout,       \* what _filter_claims returned: [raised, value]
    fprev,      \* the call before: [input, raised, value]
    private_file,    \* linkedtrust_private.pem: 0 when absent or empty, else the key pair it holds
    public_file,     \* linkedtrust_public.pem: 0 when absent, else the key pair it holds
    generated,       \* the number of key pairs generate_key_pair has returned
    private_mode,    \* permission bits of linkedtrust_private.pem ("none" when absent)
    private_pw,      \* the password linkedtrust_private.pem is encrypted with (0 is none)
    kcall,           \* the key manager call in progress, step by step
    km_private_key,  \* KeyManager.private_key (0 is None)
    km_public_key,   \* KeyManager.public_key (0 is None)
    lt_private_key,  \* LinkedTrustClient.private_key (0 is None)
    spc,        \* signing round: "idle", "signed", "presented", "verified"
    src,        \* the claim handed to the signer
    signed,     \* the last signing call: [by, key, raised, value]
    doc,        \* the claim handed to verify_signature
    verdict,    \* what verify_signature did: [raised, value]
    prev,       \* the round before: [doc, verdict, key, public_key]
    llm,        \* what llm.invoke does: [kind, content]
    pres,       \* what extract_claims did: [raised, t, value]
    parsed_response,   \* what extract_claims parsed before filtering: [ok, t, value]
    pres_pkg,   \* what the packaged extract_claims did: [raised, t, value]
    sclaim,     \* the claim handed to a submission call
    sresult,    \* what the submission call did: [by, raised, sent, payload]
    auth_client,   \* pdf_parser app: the LinkedTrust client is configured
    access_token,  \* pdf_parser app: auth_client.access_token is set
    uploaded,      \* pdf_parser app: extracted_claims holds the document
    stored,        \* pdf_parser app: the document's claims: [claim, status, posts]
    preq,           \* pdf_parser app: the last publish request: [op, index, http]
    kio,   \* key file I/O: the last call under an environment: [env, op, failed, raised]
    pdf_files,   \* the PDF files on disk: path -> content
    text_collection,   \* ChromaDB collection <name>_text: the chunk ids it holds
    image_collection,   \* ChromaDB collection <name>_images: the chunk ids it holds
    cache_meta,   \* cache directory: stem -> file_hash of <stem>_meta.json (-1: no file)
    processor_calls,   \* the number of PDFProcessor.process_pdf calls made
    doc_manager,   \* the DocumentManager object in use (numbered from 1)
    dcall,   \* the last DocumentManager call: [op, manager, path, reset, needed]
    url_fetch,   \* what requests.get(url) does: [kind, status]
    ucall,   \* what extract_claims_from_url did: [by, raised, llm_invoked, result]
    procs,   \* the processes in ensure_keys_exist: process -> [pc, private_key, public_key, pair]
    bclaims,   \* the claims handed to a batch submission call
    bresult,   \* what the batch call did: [by, raised, attempts, results, errors]
    pending,   \* pending_claims directory: approval_id -> the file [status, claims, approved_claim_ids]
    backend_log,   \* the claims handed to the backend client: [request, approval_id, claim, sent]
    areqs,   \* the approve requests: request -> [pc, approval_id, approved_claim_ids, data, raised]
    dreq,   \* demo app: the claim in the /sign request
    dsigned,   \* demo app: the /sign response [status, signed_claim]
    dposted   \* demo app: what /publish posted [sent, raised, payload]

filterVars == <<fpc, fin, fout, fprev>>
keyVars == <<private_file, public_file, generated, private_mode, private_pw, kcall,
             km_private_key, km_public_key, lt_private_key>>
roundVars == <<spc, src, signed, doc, verdict, prev>>
parseVars == <<llm, pres, parsed_response, pres_pkg>>
submitVars == <<sclaim, sresult>>
\* the variables of the submission and publishing workflows
publishVars == <<auth_client, access_token, uploaded, stored, preq>>
kioVars == <<kio>>
docVars == <<pdf_files, text_collection, image_collection, cache_meta,
             processor_calls, doc_manager, dcall>>
urlVars == <<url_fetch, ucall>>
raceVars == <<procs>>
batchVars == <<bclaims, bresult>>
approveVars == <<pending, backend_log, areqs>>
demoVars == <<dreq, dsigned, dposted>>
lateVars == <<kioVars, docVars, urlVars, raceVars, batchVars, approveVars, demoVars>>
\* the late groups but one
notKioVars == <<docVars, urlVars, raceVars, batchVars, approveVars, demoVars>>
notDocVars == <<kioVars, urlVars, raceVars, batchVars, approveVars, demoVars>>
notUrlVars == <<kioVars, docVars, raceVars, batchVars, approveVars, demoVars>>
notRaceVars == <<kioVars, docVars, urlVars, batchVars, approveVars, demoVars>>
notBatchVars == <<kioVars, docVars, urlVars, raceVars, approveVars, demoVars>>
notApproveVars == <<kioVars, docVars, urlVars, raceVars, batchVars, demoVars>>
notDemoVars == <<kioVars, docVars, urlVars, raceVars, batchVars, approveVars>>
extVars == <<submitVars, publishVars, lateVars>>
signVars == <<private_file, public_file, generated, private_mode, private_pw, kcall,
              km_private_key, km_public_key,
              lt_private_key, spc, src, signed, doc, verdict, prev>>
vars == <<fpc, fin, fout, fprev, private_file, public_file, generated, private_mode,
          private_pw, kcall, km_private_key,
          km_public_key, lt_private_key, spc, src, signed, doc, verdict, prev,
          llm, pres, parsed_response, pres_pkg, sclaim, sresult,
          auth_client, access_token, uploaded, stored, preq,
          kio,
          pdf_files,
          text_collection,
          image_collection,
          cache_meta,
          processor_calls,
          doc_manager,
          dcall,
          url_fetch, ucall,
          procs,
          bclaims, bresult,
          pending, backend_log, areqs,
          dreq, dsigned, dposted>>

(***************************************************************************)
(* Bounds of the model.                                                    *)
(***************************************************************************)
MaxClaims == 2
MaxResponse == 5    \* tokens of an LLM response
MaxFields == 2      \* fields of a claim handed to the signer
MaxStored == 2      \* claims extracted from an uploaded document
MaxKeyPairs == 2    \* key pairs generated in one behaviour
NumSalts == 2       \* PSS salts the library may draw
NumPasswords == 2   \* passwords a key file may be encrypted with
MaxManagers == 2
MaxProcessed == 2
NumProcs == 2

(***************************************************************************)
(* Characters and text.                                                    *)
(***************************************************************************)
\* the printable ASCII characters in code-point order, from 32 (space); a
\* string literal cannot hold the character 96, which no text of the model uses
Ascii ==
  <<" ","!","\"","#","$","%","&","'","(",")","*","+",",","-",".","/","0","1","2","3","4","5","6","7","8","9",":",";","<","=",">","?","@","A","B","C","D","E","F","G","H","I","J","K","L","M","N","O","P","Q","R","S","T","U","V","W","X","Y","Z","[","\\","]","^","_","BACKTICK","a","b","c","d","e","f","g","h","i","j","k","l","m","n","o","p","q","r","s","t","u","v","w","x","y","z","{","|","}","~">>
UpperCase == <<"A","B","C","D","E","F","G","H","I","J","K","L","M","N","O","P","Q","R","S","T","U","V","W","X","Y","Z">>
LowerCase == <<"a","b","c","d","e","f","g","h","i","j","k","l","m","n","o","p","q","r","s","t","u","v","w","x","y","z">>
Digits == <<"0","1","2","3","4","5","6","7","8","9">>

Range(s) == { s[i] : i \in 1..Len(s) }

IndexOf(c, s) == CHOOSE i \in 1..Len(s) : s[i] = c

\* str.lower() on one character (ASCII letters)
LowerChar(c) ==
    IF c \in Range(UpperCase) THEN LowerCase[IndexOf(c, UpperCase)] ELSE c

\* str.lower()
lower_mut_identity(text) == text
lower(text) == [i \in 1..Len(text) |-> LowerChar(text[i])]

\* Python's `pattern in text` for two str values
Contains(text, pattern) ==
    \E i \in 1..(Len(text) - Len(pattern) + 1) :
        SubSeq(text, i, i + Len(pattern) - 1) = pattern

\* any(p in text for p in patterns)
AnyIn(text, patterns) == \E j \in 1..Len(patterns) : Contains(text, patterns[j])

(***************************************************************************)
(* JSON values and dicts.                                                  *)
(***************************************************************************)
Str(chars) == [t |-> "str", s |-> chars]
Num(chars) == [t |-> "num", s |-> chars]
Null == [t |-> "null", s |-> <<>>]
Obj(pairs) == [t |-> "obj", m |-> pairs, src |-> <<>>]

K_statement == <<"s","t","a","t","e","m","e","n","t">>
K_subject == <<"s","u","b","j","e","c","t">>
K_claim == <<"c","l","a","i","m">>
K_signature == <<"s","i","g","n","a","t","u","r","e">>

HasKey(d, key) == \E i \in 1..Len(d) : d[i].k = key

\* dict.get(key, default)
Get(d, key, default) ==
    IF HasKey(d, key) THEN d[CHOOSE i \in 1..Len(d) : d[i].k = key].v ELSE default

\* Python truthiness of a scalar: `if not value`
Falsy(v) ==
    \/ v.t = "null"
    \/ v.t = "str" /\ v.s = <<>>
    \/ v.t = "num" /\ v.s = <<"0">>

(***************************************************************************)
(* ClaimExtractor: the marker lists and the filter.                        *)
(***************************************************************************)
future_words ==
  <<
    <<"w","i","l","l">>,
    <<"p","l","a","n","s">>,
    <<"e","x","p","l","o","r","i","n","g">>,
    <<"a","i","m","s">>,
    <<"h","o","p","e","s">>,
    <<"s","e","e","k","s">>,
    <<"i","n","t","e","n","d","s">>,
    <<"c","o","u","l","d">>,
    <<"w","o","u","l","d">>,
    <<"m","a","y">>,
    <<"m","i","g","h","t">>,
    <<"p","o","t","e","n","t","i","a","l">>,
    <<"p","o","s","s","i","b","l","y">>,
    <<"f","u","t","u","r","e">>,
    <<"u","p","c","o","m","i","n","g">>,
    <<"p","l","a","n","n","e","d">>,
    <<"n","e","x","t"," ","y","e","a","r">>,
    <<"i","n"," ","t","h","e"," ","f","u","t","u","r","e">>,
    <<"w","o","r","k","i","n","g"," ","t","o">>,
    <<"t","r","y","i","n","g"," ","t","o">>,
    <<"s","e","e","k","i","n","g"," ","t","o">>,
    <<"l","o","o","k","i","n","g"," ","t","o">> >>

mission_indicators ==
  <<
    <<"b","r","i","n","g","i","n","g">>,
    <<"p","r","o","v","i","d","i","n","g">>,
    <<"e","n","s","u","r","i","n","g">>,
    <<"m","i","s","s","i","o","n">>,
    <<"v","i","s","i","o","n">>,
    <<"c","o","m","m","i","t","t","e","d"," ","t","o">>,
    <<"d","e","d","i","c","a","t","e","d"," ","t","o">>,
    <<"o","u","r"," ","g","o","a","l">>,
    <<"w","e"," ","b","e","l","i","e","v","e">> >>

vague_patterns ==
  <<
    <<"n","o"," ","c","o","m","p","l","a","i","n","t","s">>,
    <<"i","m","p","r","o","v","e","d"," ","q","u","a","l","i","t","y">>,
    <<"b","e","t","t","e","r"," ","r","e","s","u","l","t","s">>,
    <<"i","n","c","r","e","a","s","e","d"," ","s","a","t","i","s","f","a","c","t","i","o","n">>,
    <<"e","n","h","a","n","c","e","d"," ","p","e","r","f","o","r","m","a","n","c","e">> >>

past_tense_verbs ==
  <<
    <<"b","u","i","l","t">>,
    <<"t","r","a","i","n","e","d">>,
    <<"p","r","o","v","i","d","e","d">>,
    <<"r","e","d","u","c","e","d">>,
    <<"s","e","r","v","e","d">>,
    <<"d","e","l","i","v","e","r","e","d">>,
    <<"c","r","e","a","t","e","d">>,
    <<"e","s","t","a","b","l","i","s","h","e","d">>,
    <<"i","m","p","l","e","m","e","n","t","e","d">>,
    <<"c","o","m","p","l","e","t","e","d">>,
    <<"a","c","h","i","e","v","e","d">>,
    <<"d","i","s","t","r","i","b","u","t","e","d">>,
    <<"v","a","c","c","i","n","a","t","e","d">>,
    <<"t","r","e","a","t","e","d">>,
    <<"e","d","u","c","a","t","e","d">>,
    <<"i","m","p","r","o","v","e","d">> >>

_contains_future_words(text) == AnyIn(lower(text), future_words)

_contains_mission_indicators(text) == AnyIn(lower(text), mission_indicators)

_is_vague_claim(text) == AnyIn(lower(text), vague_patterns)

\* any(verb in statement.lower() for verb in past_tense_verbs)
has_past_tense(statement) == AnyIn(lower(statement), past_tense_verbs)

\* re.search(r'\d+', statement)
has_numbers(statement) == \E i \in 1..Len(statement) : statement[i] \in Range(Digits)

\* the acceptance test of the loop body: `if has_past_tense or has_numbers`
verifiable_mut_and(statement) == has_past_tense(statement) /\ has_numbers(statement)
verifiable(statement) == has_past_tense(statement) \/ has_numbers(statement)

\* The body of the loop of _filter_claims for one element: "keep", "drop", or
\* the exception the body raises.  claim.get exists on a dict only, and
\* text.lower() on a str only.
filter_decision_mut_accept_first(claim) ==
    IF claim.t # "obj" THEN "AttributeError"
    ELSE LET statement == Get(claim.m, K_statement, Str(<<>>)) IN
         IF Falsy(statement) THEN "drop"
         ELSE IF statement.t # "str" THEN "AttributeError"
         ELSE IF verifiable(statement.s) THEN "keep"
         ELSE "drop"
filter_decision(claim) ==
    IF claim.t # "obj" THEN "AttributeError"
    ELSE LET statement == Get(claim.m, K_statement, Str(<<>>)) IN
         IF Falsy(statement) THEN "drop"
         ELSE IF statement.t # "str" THEN "AttributeError"
         ELSE IF _contains_future_words(statement.s) THEN "drop"
         ELSE IF _contains_mission_indicators(statement.s) THEN "drop"
         ELSE IF _is_vague_claim(statement.s) THEN "drop"
         ELSE IF verifiable(statement.s) THEN "keep"
         ELSE "drop"

\* filtered_claims.append(claim)
append_kept_mut_front(filtered, claim) == <<claim>> \o filtered
append_kept(filtered, claim) == Append(filtered, claim)

\* _filter_claims(claims): the loop from element `i` on, `filtered` being the
\* list built so far.  An exception of the body leaves the function.
RECURSIVE filter_loop(_, _, _)
filter_loop(claims, i, filtered) ==
    IF i > Len(claims) THEN [raised |-> "", value |-> filtered]
    ELSE LET d == filter_decision(claims[i]) IN
         IF d = "keep" THEN filter_loop(claims, i + 1, append_kept(filtered, claims[i]))
         ELSE IF d = "drop" THEN filter_loop(claims, i + 1, filtered)
         ELSE [raised |-> d, value |-> <<>>]

_filter_claims_mut_shared_list(claims) == filter_loop(claims, 1, fout.value)
_filter_claims(claims) == filter_loop(claims, 1, <<>>)

(***************************************************************************)
(* json.dumps of a dict of scalars.                                        *)
(***************************************************************************)
Ord(c) == 31 + IndexOf(c, Ascii)

\* a < b for two str values (Python compares code point by code point)
LexLess(a, b) ==
    \E i \in 1..(Len(a) + 1) :
        /\ i <= Len(b)
        /\ \A j \in 1..(i - 1) : a[j] = b[j]
        /\ (i = Len(a) + 1 \/ Ord(a[i]) < Ord(b[i]))

\* insert a pair into a list of pairs sorted by key
RECURSIVE InsertSorted(_, _)
InsertSorted(pair, sorted) ==
    IF sorted = <<>> THEN << pair >>
    ELSE IF LexLess(pair.k, Head(sorted).k) THEN << pair >> \o sorted
    ELSE << Head(sorted) >> \o InsertSorted(pair, Tail(sorted))

\* sorted(dct.items()) of json.dumps(..., sort_keys=True)
RECURSIVE SortItems(_)
SortItems(d) == IF d = <<>> THEN <<>> ELSE InsertSorted(Head(d), SortItems(Tail(d)))

\* the characters of a str inside a JSON string literal
RECURSIVE Escape(_)
Escape(chars) ==
    IF chars = <<>> THEN <<>>
    ELSE (IF Head(chars) \in {"\"", "\\"} THEN << "\\", Head(chars) >> ELSE << Head(chars) >>)
         \o Escape(Tail(chars))

Quote(chars) == << "\"" >> \o Escape(chars) \o << "\"" >>

\* json.dumps of a scalar
DumpScalar(v) ==
    IF v.t = "str" THEN Quote(v.s)
    ELSE IF v.t = "null" THEN << "n", "u", "l", "l" >>
    ELSE v.s

\* the items of a dict joined by item_sep, each key and value by key_sep
RECURSIVE DumpItems(_, _, _)
DumpItems(items, item_sep, key_sep) ==
    IF items = <<>> THEN <<>>
    ELSE Quote(Head(items).k) \o key_sep \o DumpScalar(Head(items).v)
         \o (IF Tail(items) = <<>> THEN <<>> ELSE item_sep)
         \o DumpItems(Tail(items), item_sep, key_sep)

\* json.dumps(d, sort_keys=True, separators=(item_sep, key_sep))
json_dumps_sorted(d, item_sep, key_sep) ==
    << "{" >> \o DumpItems(SortItems(d), item_sep, key_sep) \o << "}" >>

\* json.dumps(claim_copy, sort_keys=True, separators=(',', ':'))
canonical_json(d) == json_dumps_sorted(d, << "," >>, << ":" >>)

\* json.dumps(claim_copy, sort_keys=True): the default separators ', ' and ': '
lt_message(d) == json_dumps_sorted(d, << ",", " " >>, << ":", " " >>)

(***************************************************************************)
(* Bytes, base64 and hex.  A byte is a number in 0..255.                   *)
(***************************************************************************)
B64Alphabet ==
    <<"A","B","C","D","E","F","G","H","I","J","K","L","M","N","O","P","Q","R","S","T","U","V","W","X","Y","Z","a","b","c","d","e","f","g","h","i","j","k","l","m","n","o","p","q","r","s","t","u","v","w","x","y","z","0","1","2","3","4","5","6","7","8","9","+","/">>
HexDigits == <<"0","1","2","3","4","5","6","7","8","9","a","b","c","d","e","f">>

\* the 6-bit groups of a byte string, and the padding, of base64.b64encode
RECURSIVE b64encode(_)
b64encode(bytes) ==
    IF bytes = <<>> THEN <<>>
    ELSE IF Len(bytes) = 1 THEN
        << B64Alphabet[(bytes[1] \div 4) + 1],
           B64Alphabet[((bytes[1] % 4) * 16) + 1], "=", "=" >>
    ELSE IF Len(bytes) = 2 THEN
        << B64Alphabet[(bytes[1] \div 4) + 1],
           B64Alphabet[((bytes[1] % 4) * 16 + bytes[2] \div 16) + 1],
           B64Alphabet[((bytes[2] % 16) * 4) + 1], "=" >>
    ELSE
        << B64Alphabet[(bytes[1] \div 4) + 1],
           B64Alphabet[((bytes[1] % 4) * 16 + bytes[2] \div 16) + 1],
           B64Alphabet[((bytes[2] % 16) * 4 + bytes[3] \div 64) + 1],
           B64Alphabet[(bytes[3] % 64) + 1] >>
        \o b64encode(SubSeq(bytes, 4, Len(bytes)))

\* the bytes binascii.a2b_base64 has written after reading the 6-bit groups g
SextetsToBytes(g) ==
    LET n == 3 * (Len(g) \div 4)
             + (IF Len(g) % 4 = 2 THEN 1 ELSE IF Len(g) % 4 = 3 THEN 2 ELSE 0)
    IN [k \in 1..n |->
          LET q == 4 * ((k - 1) \div 3) IN
          IF (k - 1) % 3 = 0 THEN g[q + 1] * 4 + g[q + 2] \div 16
          ELSE IF (k - 1) % 3 = 1 THEN (g[q + 2] % 16) * 16 + g[q + 3] \div 4
          ELSE (g[q + 3] % 4) * 64 + g[q + 4]]

\* binascii.a2b_base64(text) without strict mode: characters outside the
\* alphabet are skipped, a complete run of padding ends the input, and an
\* incomplete last quad raises binascii.Error
RECURSIVE a2b_base64(_, _, _, _)
a2b_base64(text, i, pads, g) ==
    LET quad_pos == Len(g) % 4 IN
    IF i > Len(text) THEN
        IF quad_pos # 0 THEN [raised |-> "binascii.Error", value |-> <<>>]
        ELSE [raised |-> "", value |-> SextetsToBytes(g)]
    ELSE IF text[i] = "=" THEN
        IF quad_pos >= 2 /\ quad_pos + pads + 1 >= 4
        THEN [raised |-> "", value |-> SextetsToBytes(g)]
        ELSE a2b_base64(text, i + 1, IF quad_pos >= 2 THEN pads + 1 ELSE pads, g)
    ELSE IF text[i] \notin Range(B64Alphabet) THEN a2b_base64(text, i + 1, pads, g)
    ELSE a2b_base64(text, i + 1, 0, Append(g, IndexOf(text[i], B64Alphabet) - 1))

\* base64.b64decode(value): a2b_base64 of a str, TypeError for any other value
b64decode(v) ==
    IF v.t # "str" THEN [raised |-> "TypeError", value |-> <<>>]
    ELSE a2b_base64(v.s, 1, 0, <<>>)

\* bytes.hex()
RECURSIVE hex(_)
hex(bytes) ==
    IF bytes = <<>> THEN <<>>
    ELSE << HexDigits[(Head(bytes) \div 16) + 1], HexDigits[(Head(bytes) % 16) + 1] >>
         \o hex(Tail(bytes))

(***************************************************************************)
(* RSA-PSS with SHA-256.  A key pair is a number from 1; 0 is None.  The   *)
(* private key k signs for the public key k.  A signature is SigLen bytes: *)
(* the key pair and the random salt in the first, the digest of the        *)
(* message in the rest, so that it verifies exactly under the matching     *)
(* public key and for a message with the same digest.                      *)
(***************************************************************************)
DigestBytes == 3
SigLen == 1 + DigestBytes

RECURSIVE Pow(_, _)
Pow(b, e) == IF e = 0 THEN 1 ELSE b * Pow(b, e - 1)

\* SHA-256 of the message, as a number of DigestBytes bytes: the characters
\* lo..hi of the message are absorbed into h one after the other.  The range
\* is halved, and h (never negative) is tested first so that it is evaluated
\* before the range is entered: long messages then need no deep recursion.
RECURSIVE DigestFrom(_, _, _, _)
DigestFrom(msg, lo, hi, h) ==
    IF lo > hi \/ h < 0 THEN h
    ELSE IF lo = hi THEN (h * 127 + Ord(msg[lo])) % Pow(256, DigestBytes)
    ELSE DigestFrom(msg, ((lo + hi) \div 2) + 1, hi,
                    DigestFrom(msg, lo, (lo + hi) \div 2, h))

Digest(msg) == DigestFrom(msg, 1, Len(msg), 7)

\* the number h as n bytes, most significant first
BigEndian(h, n) == [k \in 1..n |-> (h \div Pow(256, n - k)) % 256]

\* private_key.sign(message, PSS(MGF1(SHA256), MAX_LENGTH), SHA256)
rsa_sign(private_key, message, salt) ==
    << private_key * 16 + salt >> \o BigEndian(Digest(message), DigestBytes)

\* public_key.verify(signature, message, PSS(...), SHA256) does not raise
\* InvalidSignature
rsa_verify_mut_key_only(public_key, signature, message) ==
    /\ Len(signature) = SigLen
    /\ signature[1] \div 16 = public_key
rsa_verify(public_key, signature, message) ==
    /\ Len(signature) = SigLen
    /\ signature[1] \div 16 = public_key
    /\ SubSeq(signature, 2, SigLen) = BigEndian(Digest(message), DigestBytes)

\* a private key that load_pem_private_key returns and that is no RSA key
OtherKey == 15

\* isinstance(self.private_key, rsa.RSAPrivateKey)
IsRSA(key) == key # 0 /\ key # OtherKey

(***************************************************************************)
(* KeyManager.sign_claim, KeyManager.verify_signature and                  *)
(* LinkedTrustClient.sign_claim.  Each returns [raised, value]: the        *)
(* exception that leaves the call ("" for none) and the value returned.    *)
(***************************************************************************)
\* d.pop(key, None) on a copy: the dict without the key
RECURSIVE Pop(_, _)
Pop(d, key) ==
    IF d = <<>> THEN <<>>
    ELSE IF Head(d).k = key THEN Pop(Tail(d), key)
    ELSE << Head(d) >> \o Pop(Tail(d), key)

\* d[key] = value
SetItem(d, key, value) ==
    IF HasKey(d, key)
    THEN [i \in 1..Len(d) |-> IF d[i].k = key THEN [k |-> key, v |-> value] ELSE d[i]]
    ELSE Append(d, [k |-> key, v |-> value])

\* claim_copy = claim.copy(); claim_copy.pop("signature", None)
signed_content_mut_keep_signature(claim) == claim
signed_content(claim) == Pop(claim, K_signature)

\* KeyManager.sign_claim(claim), the PSS salt drawn by the library being `salt`
sign_claim(private_key, claim, salt) ==
    IF private_key = 0 THEN [raised |-> "ValueError", value |-> <<>>]
    ELSE LET claim_copy == signed_content(claim)
             signature == rsa_sign(private_key, canonical_json(claim_copy), salt)
         IN [raised |-> "",
             value |-> SetItem(claim_copy, K_signature, Str(b64encode(signature)))]

\* the dict handed to KeyManager.sign_claim when the call has ended: the pop
\* and the new signature are written to claim_copy = claim.copy(), a dict of
\* its own, so the argument holds what it held
sign_claim_argument_mut_alias(private_key, claim, salt) ==
    IF private_key = 0 THEN claim ELSE sign_claim(private_key, claim, salt).value
sign_claim_argument(private_key, claim, salt) == claim

\* KeyManager.verify_signature(claim)
verify_signature(public_key, claim) ==
    IF public_key = 0 THEN [raised |-> "ValueError", value |-> FALSE]
    ELSE IF ~HasKey(claim, K_signature) THEN [raised |-> "", value |-> FALSE]
    ELSE LET decoded == b64decode(Get(claim, K_signature, Null))
             claim_copy == Pop(claim, K_signature)
         IN IF decoded.raised # "" THEN [raised |-> decoded.raised, value |-> FALSE]
            ELSE [raised |-> "",
                  value |-> rsa_verify(public_key, decoded.value, canonical_json(claim_copy))]

\* LinkedTrustClient.sign_claim(claim)
lt_sign_claim(private_key, claim, salt) ==
    IF private_key = 0 THEN [raised |-> "", value |-> claim]
    ELSE IF IsRSA(private_key) THEN
        LET claim_copy == Pop(claim, K_signature)
            signature == rsa_sign(private_key, lt_message(claim_copy), salt)
        IN [raised |-> "", value |-> SetItem(claim_copy, K_signature, Str(hex(signature)))]
    ELSE [raised |-> "", value |-> claim]

(***************************************************************************)
(* json.loads and the extraction of a JSON array from a response.          *)
(***************************************************************************)
TX == [c |-> "x", m |-> <<>>]
TOpen == [c |-> "[", m |-> <<>>]
TClose == [c |-> "]", m |-> <<>>]
TComma == [c |-> ",", m |-> <<>>]
TObj(elem) == [c |-> "{", m |-> elem.m]

ListElem(text) == [t |-> "list", m |-> <<>>, src |-> text]
StrElem(chars) == [t |-> "str", m |-> <<>>, src |-> << [c |-> "x", m |-> <<>>] >>]

ParseFail == [ok |-> FALSE, elem |-> ListElem(<<>>), items |-> <<>>, next |-> 0]

\* The JSON value that starts at token i: [ok, elem, items, next], elem the
\* value, items its elements when it is a list, next the token after it.
RECURSIVE ParseValue(_, _)
RECURSIVE ParseItems(_, _, _)
ParseValue(text, i) ==
    IF i > Len(text) THEN ParseFail
    ELSE IF text[i].c = "{" THEN
        [ok |-> TRUE, elem |-> Obj(text[i].m), items |-> <<>>, next |-> i + 1]
    ELSE IF text[i].c = "[" THEN
        IF i + 1 <= Len(text) /\ text[i + 1].c = "]"
        THEN [ok |-> TRUE, elem |-> ListElem(SubSeq(text, i, i + 1)),
              items |-> <<>>, next |-> i + 2]
        ELSE LET r == ParseItems(text, i + 1, <<>>) IN
             IF r.ok
             THEN [ok |-> TRUE, elem |-> ListElem(SubSeq(text, i, r.next - 1)),
                   items |-> r.items, next |-> r.next]
             ELSE ParseFail
    ELSE ParseFail

\* the elements of a list from token i on, up to its "]"
ParseItems(text, i, acc) ==
    LET v == ParseValue(text, i) IN
    IF ~v.ok \/ v.next > Len(text) THEN ParseFail
    ELSE IF text[v.next].c = "]"
        THEN [ok |-> TRUE, elem |-> v.elem, items |-> Append(acc, v.elem), next |-> v.next + 1]
    ELSE IF text[v.next].c = ","
        THEN ParseItems(text, v.next + 1, Append(acc, v.elem))
    ELSE ParseFail

\* json.loads(text): [ok, t, value]; ok is FALSE for json.JSONDecodeError.  A
\* list is its elements, a dict is the one element it is.
json_loads(text) ==
    LET v == ParseValue(text, 1) IN
    IF v.ok /\ v.next = Len(text) + 1
    THEN [ok |-> TRUE, t |-> v.elem.t,
          value |-> IF v.elem.t = "list" THEN v.items ELSE << v.elem >>]
    ELSE [ok |-> FALSE, t |-> "list", value |-> <<>>]

\* `for claim in parsed`: the elements of a list, the keys of a dict
Iterate(parsed) ==
    IF parsed.t = "list" THEN parsed.value
    ELSE [i \in 1..Len(parsed.value[1].m) |-> StrElem(parsed.value[1].m[i].k)]

\* re.match(r'[^\[]+(\[[^\]]+\])[^\]]*$', content): [matched, group1].  The
\* match is text before the first "[", which is not empty, then from that "["
\* to the first "]" after it with something between, then text without "]".
FirstIndex(text, c, from) ==
    IF \E i \in from..Len(text) : text[i].c = c
    THEN CHOOSE i \in from..Len(text) :
            text[i].c = c /\ \A j \in from..(i - 1) : text[j].c # c
    ELSE 0

array_match(content) ==
    LET open == FirstIndex(content, "[", 1)
        close == IF open = 0 THEN 0 ELSE FirstIndex(content, "]", open + 1)
    IN IF open > 1 /\ close > open + 1 /\ FirstIndex(content, "]", close + 1) = 0
       THEN [matched |-> TRUE, group1 |-> SubSeq(content, open, close)]
       ELSE [matched |-> FALSE, group1 |-> <<>>]

(***************************************************************************)
(* Inputs of the filter.                                                   *)
(***************************************************************************)
S1 == <<"B","u","i","l","t"," ","1","2"," ","s","c","h","o","o","l","s"," ","s","e","r","v","i","n","g"," ","3",",","0","0","0"," ","s","t","u","d","e","n","t","s",".">>  \* Built 12 schools serving 3,000 students.
S2 == <<"P","l","a","n","s"," ","t","o"," ","b","u","i","l","d"," ","a","d","d","i","t","i","o","n","a","l"," ","s","c","h","o","o","l","s",".">>  \* Plans to build additional schools.
S3 == <<"N","o"," ","c","o","m","p","l","a","i","n","t","s"," ","a","b","o","u","t"," ","q","u","a","l","i","t","y",".">>  \* No complaints about quality.
S4 == <<"W","e"," ","w","i","l","l"," ","v","a","c","c","i","n","a","t","e"," ","5",",","0","0","0"," ","c","h","i","l","d","r","e","n"," ","n","e","x","t"," ","y","e","a","r">>  \* We will vaccinate 5,000 children next year
S5 == <<"V","a","c","c","i","n","a","t","e","d"," ","2",",","5","0","0"," ","c","h","i","l","d","r","e","n"," ","a","g","a","i","n","s","t"," ","m","e","a","s","l","e","s"," ","i","n"," ","2","0","2","3">>  \* Vaccinated 2,500 children against measles in 2023
S6 == <<"C","o","m","m","i","t","t","e","d"," ","t","o"," ","p","r","o","v","i","d","i","n","g"," ","c","l","e","a","n"," ","w","a","t","e","r">>  \* Committed to providing clean water
S7 == <<"N","o"," ","c","o","m","p","l","a","i","n","t","s"," ","w","e","r","e"," ","r","e","c","e","i","v","e","d">>  \* No complaints were received
S8 == <<"X">>  \* X
S9 == <<"T","r","a","i","n","e","d"," ","f","a","r","m","e","r","s">>  \* Trained farmers
S10 == <<"R","e","a","c","h","e","d"," ","4","0"," ","v","i","l","l","a","g","e","s">>  \* Reached 40 villages
S11 == <<"O","u","r"," ","m","i","s","s","i","o","n"," ","d","e","l","i","v","e","r","e","d"," ","9"," ","w","e","l","l","s">>  \* Our mission delivered 9 wells
S12 == <<"I","m","p","r","o","v","e","d"," ","q","u","a","l","i","t","y"," ","a","t"," ","3"," ","s","i","t","e","s">>  \* Improved quality at 3 sites
S13 == <<"F","a","r","m","e","r","s"," ","w","e","r","e"," ","h","a","p","p","y">>  \* Farmers were happy
S14 == <<"w","i","l","l"," ","n","o","t"," ","r","e","d","u","c","e"," ","c","o","s","t","s"," ","b","y"," ","5"," ","p","e","r","c","e","n","t">>  \* will not reduce costs by 5 percent
S15 == <<"G","o","o","d","w","i","l","l"," ","s","t","o","r","e","s"," ","s","e","r","v","e","d"," ","2","0","0"," ","f","a","m","i","l","i","e","s">>  \* Goodwill stores served 200 families

Statements == {S1, S2, S3, S4, S5, S6, S7, S8, S9, S10, S11, S12, S13, S14, S15, <<>>}

SubjectA == Str(<<"A">>)
Impact == Str(<<"i","m","p","a","c","t">>)

\* a claim as the LLM emits it
Claim(statement) ==
    Obj(<< [k |-> K_subject, v |-> SubjectA],
           [k |-> K_claim, v |-> Impact],
           [k |-> K_statement, v |-> Str(statement)] >>)

\* a claim with no statement key
ClaimNoStatement == Obj(<< [k |-> K_subject, v |-> SubjectA] >>)

FilterElems == { Claim(s) : s \in Statements } \cup {ClaimNoStatement}

SeqsUpTo(S, n) == UNION { [1..k -> S] : k \in 0..n }

\* the scenario of the filter's documentation
Scenario == << Claim(S1), Claim(S2), Claim(S3) >>

FilterInputs == SeqsUpTo(FilterElems, MaxClaims) \cup {Scenario}

(***************************************************************************)
(* The filter as a state machine: one call of _filter_claims.              *)
(***************************************************************************)
NoResult == [raised |-> "", value |-> <<>>]
NoSigned == [by |-> "", key |-> 0, raised |-> "", value |-> <<>>]
NoVerdict == [raised |-> "none", value |-> FALSE]
NoPrev == [doc |-> <<>>, verdict |-> NoVerdict, key |-> 0, public_key |-> 0]

\* no key manager call in progress
NoCall == [pc |-> "idle", op |-> "", password |-> 0, pair |-> 0,
           before_private |-> 0, before_public |-> 0, before_generated |-> 0]

NotRun == [raised |-> "none", t |-> "list", value |-> <<>>]
NoResponse == [kind |-> "none", content |-> <<>>]

NoSubmission == [by |-> "", raised |-> "", sent |-> FALSE, payload |-> <<>>]

SubmitIdle == sclaim = <<>> /\ sresult = NoSubmission

NoRequest == [op |-> "", index |-> 0, http |-> 0]

PublishIdle ==
    /\ auth_client = FALSE /\ access_token = FALSE /\ uploaded = FALSE
    /\ stored = <<>> /\ preq = NoRequest

\* no key file call under an I/O environment yet
NoKeyIO == [env |-> "", op |-> "", failed |-> FALSE, raised |-> ""]

\* no PDF files are modelled and no DocumentManager call was made
NoFiles == <<>>
NoDocCall == [op |-> "", manager |-> 0, path |-> "", reset |-> FALSE, needed |-> FALSE]

\* no URL was fetched
NoFetch == [kind |-> "", status |-> 0]
NoUrlCall == [by |-> "", raised |-> "", llm_invoked |-> FALSE, result |-> NotRun]

\* no process is modelled
NoProcs == <<>>

\* no batch submission call was made
NoBatch == [by |-> "", raised |-> "", attempts |-> <<>>, results |-> <<>>, errors |-> <<>>]

\* the demo app has answered no request
NoSignResponse == [status |-> 0, signed_claim |-> <<>>]
NoPost == [sent |-> FALSE, raised |-> "", payload |-> <<>>]

KioIdle ==
    /\ kio = NoKeyIO

DocIdle ==
    /\ pdf_files = NoFiles
    /\ text_collection = {}
    /\ image_collection = {}
    /\ cache_meta = NoFiles
    /\ processor_calls = 0
    /\ doc_manager = 0
    /\ dcall = NoDocCall

UrlIdle ==
    /\ url_fetch = NoFetch
    /\ ucall = NoUrlCall

RaceIdle ==
    /\ procs = NoProcs

BatchIdle ==
    /\ bclaims = <<>>
    /\ bresult = NoBatch

ApproveIdle ==
    /\ pending = NoFiles
    /\ backend_log = <<>>
    /\ areqs = NoFiles

DemoIdle ==
    /\ dreq = <<>>
    /\ dsigned = NoSignResponse
    /\ dposted = NoPost

LateIdle == KioIdle /\ DocIdle /\ UrlIdle /\ RaceIdle /\ BatchIdle /\ ApproveIdle /\ DemoIdle
\* the late workflows but one are idle
NotKioIdle == DocIdle /\ UrlIdle /\ RaceIdle /\ BatchIdle /\ ApproveIdle /\ DemoIdle
NotDocIdle == KioIdle /\ UrlIdle /\ RaceIdle /\ BatchIdle /\ ApproveIdle /\ DemoIdle
NotUrlIdle == KioIdle /\ DocIdle /\ RaceIdle /\ BatchIdle /\ ApproveIdle /\ DemoIdle
NotRaceIdle == KioIdle /\ DocIdle /\ UrlIdle /\ BatchIdle /\ ApproveIdle /\ DemoIdle
NotBatchIdle == KioIdle /\ DocIdle /\ UrlIdle /\ RaceIdle /\ ApproveIdle /\ DemoIdle
NotApproveIdle == KioIdle /\ DocIdle /\ UrlIdle /\ RaceIdle /\ BatchIdle /\ DemoIdle
NotDemoIdle == KioIdle /\ DocIdle /\ UrlIdle /\ RaceIdle /\ BatchIdle /\ ApproveIdle

ExtIdle == SubmitIdle /\ PublishIdle /\ LateIdle

NotParsed == [ok |-> FALSE, t |-> "list", value |-> <<>>]

ParseIdle ==
    /\ llm = NoResponse /\ pres = NotRun /\ pres_pkg = NotRun
    /\ parsed_response = NotParsed

NoFilterCall == [input |-> <<>>, raised |-> "none", value |-> <<>>]

FilterIdle == fpc = "idle" /\ fin = <<>> /\ fout = NoResult /\ fprev = NoFilterCall

SignIdle ==
    /\ private_file = 0 /\ public_file = 0 /\ generated = 0
    /\ private_mode = "none" /\ private_pw = 0 /\ kcall = NoCall
    /\ km_private_key = 0 /\ km_public_key = 0 /\ lt_private_key = 0
    /\ spc = "idle" /\ src = <<>> /\ signed = NoSigned /\ doc = <<>>
    /\ verdict = NoVerdict /\ prev = NoPrev

FilterInit ==
    /\ fpc = "start"
    /\ fin \in FilterInputs
    /\ fout = NoResult
    /\ fprev = NoFilterCall
    /\ SignIdle
    /\ ParseIdle
    /\ ExtIdle

FilterCall ==
    /\ fpc = "start"
    /\ fout' = _filter_claims(fin)
    /\ fpc' = "done"
    /\ UNCHANGED <<fin, fprev>>
    /\ UNCHANGED signVars
    /\ UNCHANGED parseVars
    /\ UNCHANGED extVars

\* _filter_claims on the first input once more, by the same extractor or by
\* a new ClaimExtractor (whose word lists are the same constants), directly
\* or after the call on the recased statements
FilterAgain ==
    /\ fpc \in {"done", "cased"}
    /\ fprev' = IF fpc = "done"
                THEN [input |-> fin, raised |-> fout.raised, value |-> fout.value]
                ELSE fprev
    /\ fin' = fprev'.input
    /\ fout' = _filter_claims(fin')
    /\ fpc' = "again"
    /\ UNCHANGED signVars
    /\ UNCHANGED parseVars
    /\ UNCHANGED extVars

\* the statements in another letter case
UpperChar(c) ==
    IF c \in Range(LowerCase) THEN UpperCase[IndexOf(c, LowerCase)] ELSE c

SwapChar(c) == IF c \in Range(LowerCase) THEN UpperChar(c) ELSE LowerChar(c)

Recase(text, mode) ==
    [i \in 1..Len(text) |-> IF mode = "upper" THEN UpperChar(text[i])
                            ELSE IF mode = "lower" THEN LowerChar(text[i])
                            ELSE SwapChar(text[i])]

RecaseClaim(claim, mode) ==
    IF HasKey(claim.m, K_statement)
    THEN Obj(SetItem(claim.m, K_statement, Str(Recase(Get(claim.m, K_statement, Null).s, mode))))
    ELSE claim

CaseModes == {"upper", "lower", "swap"}

\* _filter_claims on the same claims with their statements in another case
FilterRecased(mode) ==
    /\ fpc = "done"
    /\ fprev' = [input |-> fin, raised |-> fout.raised, value |-> fout.value]
    /\ fin' = [i \in 1..Len(fin) |-> RecaseClaim(fin[i], mode)]
    /\ fout' = _filter_claims(fin')
    /\ fpc' = "cased"
    /\ UNCHANGED signVars
    /\ UNCHANGED parseVars
    /\ UNCHANGED extVars

FilterNext ==
    \/ FilterCall
    \/ FilterAgain
    \/ \E mode \in CaseModes : FilterRecased(mode)

FilterSpec == FilterInit /\ [][FilterNext]_vars


(***************************************************************************)
(* ClaimExtractor.extract_claims, of src/claim_extractor (which filters    *)
(* what it parses) and of the claim_extractor package (which does not).    *)
(* Each is [raised, t, value]: the exception that leaves the call, and the *)
(* value returned, a list (t = "list") or the dict json.loads returned.    *)
(***************************************************************************)
EmptyList == [raised |-> "", t |-> "list", value |-> <<>>]

\* `return self._filter_claims(parsed)`
Filtered(parsed) ==
    LET f == _filter_claims(Iterate(parsed)) IN
    [raised |-> f.raised, t |-> "list", value |-> f.value]

\* `return parsed`
Returned(parsed) == [raised |-> "", t |-> parsed.t, value |-> parsed.value]

\* the end of extract_claims when neither parse has succeeded
parse_failed_mut_raise == [raised |-> "JSONDecodeError", t |-> "list", value |-> <<>>]
parse_failed == EmptyList

\* the parse of extract_claims: json.loads of the content, and when that
\* raises json.JSONDecodeError, json.loads of the array the pattern finds
parse_response_mut_filtering(content) ==
    LET parsed == json_loads(content) IN
    [parsed EXCEPT !.value = IF parsed.t = "list"
                             THEN _filter_claims(parsed.value).value ELSE @]
parse_response(content) ==
    LET parsed == json_loads(content) IN
    IF parsed.ok THEN parsed
    ELSE LET m == array_match(content)
             extracted == json_loads(m.group1)
         IN IF m.matched /\ extracted.ok THEN extracted ELSE NotParsed

\* extract_claims(text), `response` being what llm.invoke does
extract_claims(response) ==
    IF response.kind # "content" THEN EmptyList
    ELSE LET parsed == parse_response(response.content) IN
         IF parsed.ok THEN Filtered(parsed) ELSE parse_failed

\* extract_claims(text) of the claim_extractor package
extract_claims_pkg(response) ==
    IF response.kind # "content" THEN EmptyList
    ELSE LET parsed == parse_response(response.content) IN
         IF parsed.ok THEN Returned(parsed) ELSE parse_failed

(***************************************************************************)
(* LLM responses: every text of at most MaxResponse tokens, and an         *)
(* invocation that raises or returns nothing.                              *)
(***************************************************************************)
\* the claim of the parser's documentation: its statement is "X"
ObjX == Claim(S8)
\* a claim the filter keeps
ObjA == Claim(S9)

Tokens == { TX, TOpen, TClose, TComma, TObj(ObjX), TObj(ObjA) }

Responses ==
    { [kind |-> "content", content |-> text] : text \in SeqsUpTo(Tokens, MaxResponse) }
    \cup { [kind |-> "raise", content |-> <<>>], [kind |-> "none", content |-> <<>>] }

ParseInit ==
    /\ llm \in Responses
    /\ pres = NotRun
    /\ parsed_response = NotParsed
    /\ pres_pkg = NotRun
    /\ FilterIdle
    /\ SignIdle
    /\ ExtIdle

\* claim_extractor.extract_claims(text)
ExtractClaims ==
    /\ pres = NotRun
    /\ pres' = extract_claims(llm)
    /\ parsed_response' = IF llm.kind = "content" THEN parse_response(llm.content)
                          ELSE NotParsed
    /\ UNCHANGED <<llm, pres_pkg>>
    /\ UNCHANGED filterVars
    /\ UNCHANGED signVars
    /\ UNCHANGED extVars

\* extract_claims(text) of the claim_extractor package
ExtractClaimsPkg ==
    /\ pres_pkg = NotRun
    /\ pres_pkg' = extract_claims_pkg(llm)
    /\ UNCHANGED <<llm, pres, parsed_response>>
    /\ UNCHANGED filterVars
    /\ UNCHANGED signVars
    /\ UNCHANGED extVars

ParseNext == ExtractClaims \/ ExtractClaimsPkg

ParseSpec == ParseInit /\ [][ParseNext]_vars

(***************************************************************************)
(* Inputs of the signer: dicts of at most MaxFields fields, in any         *)
(* insertion order, some carrying a signature field already.               *)
(***************************************************************************)
SignKeys == {K_subject, K_claim, K_signature}

\* the values a field has in the claims handed to the signer
FieldValues(key) ==
    IF key = K_subject THEN { SubjectA }
    ELSE IF key = K_claim THEN { Impact }
    ELSE { Str(<<"a","b","c">>),                      \* not decodable: bad padding
           Str(<<"A","A","A","A","A","A","=","=">>) } \* decodable, no signature

\* the values a field may be changed to after signing
OtherValues(key) ==
    IF key = K_subject THEN { Str(<<"B">>) }
    ELSE IF key = K_claim THEN { Str(<<"r","a","t","e","d">>) }
    ELSE {}

DistinctKeys(d) == \A i, j \in 1..Len(d) : d[i].k = d[j].k => i = j

SignInputs ==
    UNION { { d \in [1..n -> UNION { {[k |-> key, v |-> val] : val \in FieldValues(key)}
                                      : key \in SignKeys }] : DistinctKeys(d) }
            : n \in 0..MaxFields }

Salts == 0..(NumSalts - 1)

(***************************************************************************)
(* KeyManager: the key files and the loaded keys.                          *)
(***************************************************************************)
\* load_keys(): each key is read from its file when the file exists
LoadKeys ==
    /\ spc # "verified"
    /\ km_private_key' = private_file
    /\ km_public_key' = public_file
    /\ UNCHANGED <<private_file, public_file, generated, private_mode, private_pw, kcall,
                   lt_private_key>>
    /\ UNCHANGED roundVars
    /\ UNCHANGED filterVars
    /\ UNCHANGED parseVars
    /\ UNCHANGED extVars

\* ensure_keys_exist(): load_keys(), and when a key is missing generate a pair,
\* save both files and keep the pair
EnsureKeysExist ==
    /\ spc = "idle"
    /\ IF private_file = 0 \/ public_file = 0
       THEN /\ generated < MaxKeyPairs
            /\ generated' = generated + 1
            /\ private_file' = generated + 1
            /\ public_file' = generated + 1
            /\ km_private_key' = generated + 1
            /\ km_public_key' = generated + 1
            /\ private_mode' = "600"
            /\ private_pw' = 0
       ELSE /\ km_private_key' = private_file
            /\ km_public_key' = public_file
            /\ UNCHANGED <<private_file, public_file, generated, private_mode, private_pw>>
    /\ UNCHANGED <<lt_private_key, kcall>>
    /\ UNCHANGED roundVars
    /\ UNCHANGED filterVars
    /\ UNCHANGED parseVars
    /\ UNCHANGED extVars

\* save_key_pair(*generate_key_pair()): a new pair replaces the files; the keys
\* the manager has loaded stay
SaveNewKeyPair ==
    /\ spc = "idle"
    /\ generated < MaxKeyPairs
    /\ generated' = generated + 1
    /\ private_file' = generated + 1
    /\ public_file' = generated + 1
    /\ private_mode' = "600"
    /\ private_pw' = 0
    /\ UNCHANGED <<km_private_key, km_public_key, lt_private_key, kcall>>
    /\ UNCHANGED roundVars
    /\ UNCHANGED filterVars
    /\ UNCHANGED parseVars
    /\ UNCHANGED extVars

\* LinkedTrustClient(private_key_path=...): no path, the key manager's private
\* key file, or a PEM file of a key that is not RSA.  _load_private_key raises
\* when the file cannot be read, and no client is made.
LTInit(path) ==
    /\ spc = "idle"
    /\ \/ path = "none" /\ lt_private_key' = 0
       \/ path = "key_dir" /\ private_file # 0 /\ lt_private_key' = private_file
       \/ path = "other" /\ lt_private_key' = OtherKey
    /\ UNCHANGED <<private_file, public_file, generated, private_mode, private_pw, kcall,
                   km_private_key, km_public_key>>
    /\ UNCHANGED roundVars
    /\ UNCHANGED filterVars
    /\ UNCHANGED parseVars
    /\ UNCHANGED extVars

(***************************************************************************)
(* A signing round: the claim is signed, perhaps changed, and verified.    *)
(***************************************************************************)
\* a signing call returns or raises; what it returned goes to the verifier
SignCall(result, by, key) ==
    /\ signed' = [by |-> by, key |-> key, raised |-> result.raised, value |-> result.value]
    /\ doc' = result.value
    /\ verdict' = NoVerdict
    /\ spc' = IF result.raised = "" THEN "signed" ELSE "idle"
    /\ UNCHANGED keyVars
    /\ UNCHANGED filterVars
    /\ UNCHANGED parseVars
    /\ UNCHANGED extVars

\* key_manager.sign_claim(src)
KMSign(salt) ==
    /\ spc = "idle"
    /\ SignCall(sign_claim(km_private_key, src, salt), "km", km_private_key)
    /\ src' = sign_claim_argument(km_private_key, src, salt)
    /\ UNCHANGED prev

\* linkedtrust_client.sign_claim(src)
LTSign(salt) ==
    /\ spc = "idle"
    /\ SignCall(lt_sign_claim(lt_private_key, src, salt), "lt", lt_private_key)
    /\ UNCHANGED <<src, prev>>

\* key_manager.sign_claim(src) once more, on a fresh copy of the claim a first
\* signing round has signed and verified
KMSignAgain(salt) ==
    /\ spc = "verified"
    /\ signed.by = "km"
    /\ prev = NoPrev
    /\ SignCall(sign_claim(km_private_key, src, salt), "km", km_private_key)
    /\ src' = sign_claim_argument(km_private_key, src, salt)
    /\ prev' = [doc |-> doc, verdict |-> verdict, key |-> signed.key,
                 public_key |-> km_public_key]

\* a claim that no signer of the program returned is handed to the verifier
Present ==
    /\ spc = "idle"
    /\ doc' = src
    /\ spc' = "presented"
    /\ UNCHANGED <<src, signed, verdict, prev>>
    /\ UNCHANGED keyVars
    /\ UNCHANGED filterVars
    /\ UNCHANGED parseVars
    /\ UNCHANGED extVars

\* the value of one field other than the signature is changed after signing
Tamper(i, value) ==
    /\ spc = "signed"
    /\ doc = signed.value
    /\ i \in 1..Len(doc)
    /\ doc[i].k # K_signature
    /\ value \in OtherValues(doc[i].k)
    /\ doc' = [doc EXCEPT ![i] = [k |-> doc[i].k, v |-> value]]
    /\ UNCHANGED <<spc, src, signed, verdict, prev>>
    /\ UNCHANGED keyVars
    /\ UNCHANGED filterVars
    /\ UNCHANGED parseVars
    /\ UNCHANGED extVars

\* key_manager.verify_signature(doc)
Verify ==
    /\ spc \in {"signed", "presented"}
    /\ verdict' = verify_signature(km_public_key, doc)
    /\ spc' = "verified"
    /\ UNCHANGED <<src, signed, doc, prev>>
    /\ UNCHANGED keyVars
    /\ UNCHANGED filterVars
    /\ UNCHANGED parseVars
    /\ UNCHANGED extVars

SignInit ==
    /\ private_file = 0 /\ public_file = 0 /\ generated = 0
    /\ private_mode = "none" /\ private_pw = 0 /\ kcall = NoCall
    /\ km_private_key = 0 /\ km_public_key = 0 /\ lt_private_key = 0
    /\ spc = "idle" /\ src \in SignInputs /\ signed = NoSigned /\ doc = <<>>
    /\ verdict = NoVerdict /\ prev = NoPrev
    /\ FilterIdle
    /\ ParseIdle
    /\ ExtIdle

SignNext ==
    \/ LoadKeys
    \/ EnsureKeysExist
    \/ SaveNewKeyPair
    \/ \E path \in {"none", "key_dir", "other"} : LTInit(path)
    \/ \E salt \in Salts : KMSign(salt)
    \/ \E salt \in Salts : LTSign(salt)
    \/ \E salt \in Salts : KMSignAgain(salt)
    \/ Present
    \/ \E i \in 1..(MaxFields + 1), value \in UNION { OtherValues(key) : key \in SignKeys } :
        Tamper(i, value)
    \/ Verify

SignSpec == SignInit /\ [][SignNext]_vars

(***************************************************************************)
(* The key files step by step: load_keys, ensure_keys_exist and            *)
(* save_key_pair with their password argument, the permission bits of the  *)
(* private key file, and new KeyManager objects on the same directory.     *)
(***************************************************************************)
\* password arguments: 0 is None, the others are passwords
Passwords == 0..NumPasswords

\* the permission bits open(path, "wb") gives a file it creates: 0o666 less the
\* umask of the process
CreateModes == {"600", "644"}

\* serialization.load_pem_private_key(data, password): the key when the
\* password is the one the file was encrypted with, else an exception that
\* load_keys catches, leaving None
load_pem_private_key(file, file_password, password) ==
    IF file # 0 /\ file_password = password THEN file ELSE 0

KeyCallDone == kcall.pc \in {"idle", "returned"}

KeyFrame ==
    /\ UNCHANGED <<lt_private_key>>
    /\ UNCHANGED roundVars
    /\ UNCHANGED filterVars
    /\ UNCHANGED parseVars
    /\ UNCHANGED extVars

\* KeyManager(key_dir): a new object on the same directory holds no keys
NewKeyManager ==
    /\ KeyCallDone
    /\ km_private_key' = 0
    /\ km_public_key' = 0
    /\ kcall' = NoCall
    /\ UNCHANGED <<private_file, public_file, generated, private_mode, private_pw>>
    /\ KeyFrame

\* load_keys(password=password)
KeyLoad(password) ==
    /\ KeyCallDone
    /\ km_private_key' = load_pem_private_key(private_file, private_pw, password)
    /\ km_public_key' = public_file
    /\ kcall' = [NoCall EXCEPT !.pc = "returned", !.op = "load", !.password = password,
                               !.before_private = private_file,
                               !.before_public = public_file,
                               !.before_generated = generated]
    /\ UNCHANGED <<private_file, public_file, generated, private_mode, private_pw>>
    /\ KeyFrame

\* ensure_keys_exist(password=password) up to its test of the loaded keys:
\* it returns them, or goes on to generate a pair
EnsureLoad(password) ==
    /\ KeyCallDone
    /\ LET private_key == load_pem_private_key(private_file, private_pw, password)
           public_key == public_file
           missing == private_key = 0 \/ public_key = 0
       IN /\ missing => generated < MaxKeyPairs
          /\ km_private_key' = private_key
          /\ km_public_key' = public_key
          /\ kcall' = [NoCall EXCEPT !.pc = IF missing THEN "generate" ELSE "returned",
                                     !.op = "ensure", !.password = password,
                                     !.before_private = private_file,
                                     !.before_public = public_file,
                                     !.before_generated = generated]
    /\ UNCHANGED <<private_file, public_file, generated, private_mode, private_pw>>
    /\ KeyFrame

\* save_key_pair(*generate_key_pair(), password=password) called directly
SaveStart(password) ==
    /\ KeyCallDone
    /\ generated < MaxKeyPairs
    /\ kcall' = [NoCall EXCEPT !.pc = "generate", !.op = "save", !.password = password,
                               !.before_private = private_file,
                               !.before_public = public_file,
                               !.before_generated = generated]
    /\ UNCHANGED <<private_file, public_file, generated, private_mode, private_pw,
                   km_private_key, km_public_key>>
    /\ KeyFrame

\* generate_key_pair()
GenerateKeyPair ==
    /\ kcall.pc = "generate"
    /\ generated' = generated + 1
    /\ kcall' = [kcall EXCEPT !.pc = "save", !.pair = generated + 1]
    /\ UNCHANGED <<private_file, public_file, private_mode, private_pw,
                   km_private_key, km_public_key>>
    /\ KeyFrame

\* save_key_pair: open(private_key_path, "wb") and f.write(private_pem); a file
\* that exists keeps its permission bits, a new one gets those of the umask
SaveWritePrivate(create_mode) ==
    /\ kcall.pc = "save"
    /\ private_file' = kcall.pair
    /\ private_pw' = kcall.password
    /\ private_mode' = IF private_mode = "none" THEN create_mode ELSE private_mode
    /\ kcall' = [kcall EXCEPT !.pc = "written"]
    /\ UNCHANGED <<public_file, generated, km_private_key, km_public_key>>
    /\ KeyFrame

\* save_key_pair: os.chmod(private_key_path, 0o600)
SaveChmod ==
    /\ kcall.pc = "written"
    /\ private_mode' = "600"
    /\ kcall' = [kcall EXCEPT !.pc = "chmod"]
    /\ UNCHANGED <<private_file, public_file, generated, private_pw,
                   km_private_key, km_public_key>>
    /\ KeyFrame

\* save_key_pair: the public key file is written and the call returns;
\* ensure_keys_exist then keeps the new pair
SaveWritePublic ==
    /\ kcall.pc = "chmod"
    /\ public_file' = kcall.pair
    /\ IF kcall.op = "ensure"
       THEN km_private_key' = kcall.pair /\ km_public_key' = kcall.pair
       ELSE UNCHANGED <<km_private_key, km_public_key>>
    /\ kcall' = [kcall EXCEPT !.pc = "returned"]
    /\ UNCHANGED <<private_file, generated, private_mode, private_pw>>
    /\ KeyFrame

KeyInit ==
    /\ SignIdle
    /\ FilterIdle
    /\ ParseIdle
    /\ ExtIdle

KeyNext ==
    \/ NewKeyManager
    \/ \E password \in Passwords : KeyLoad(password)
    \/ \E password \in Passwords : EnsureLoad(password)
    \/ \E password \in Passwords : SaveStart(password)
    \/ GenerateKeyPair
    \/ \E create_mode \in CreateModes : SaveWritePrivate(create_mode)
    \/ SaveChmod
    \/ SaveWritePublic

KeySpec == KeyInit /\ [][KeyNext]_vars

(***************************************************************************)
(* Submission to the trust backend: LinkedTrustClient.submit_claim and     *)
(* BackendAPIClient.create_claim.                                          *)
(***************************************************************************)
K_object == <<"o","b","j","e","c","t">>
K_sourceURI == <<"s","o","u","r","c","e","U","R","I">>
K_howKnown == <<"h","o","w","K","n","o","w","n">>
K_confidence == <<"c","o","n","f","i","d","e","n","c","e">>
K_aspect == <<"a","s","p","e","c","t">>
K_effectiveDate == <<"e","f","f","e","c","t","i","v","e","D","a","t","e">>

Rated == Str(<<"r","a","t","e","d">>)
SameAs == Str(<<"s","a","m","e","_","a","s">>)
valid_claim_types == << Impact, Rated, SameAs >>

\* the current time as time.strftime / datetime.isoformat print it
Now == Str(<<"2","0","2","5","-","0","1","-","0","1","T","0","0",":","0","0",":","0","0","Z">>)

\* LinkedTrustClient.validate_claim(claim)
validate_claim(claim) ==
    /\ \A field \in {K_subject, K_claim, K_statement} :
           HasKey(claim, field) /\ ~Falsy(Get(claim, field, Null))
    /\ \E i \in 1..Len(valid_claim_types) : Get(claim, K_claim, Null) = valid_claim_types[i]

SetDefault(d, key, value) == IF HasKey(d, key) THEN d ELSE SetItem(d, key, value)

\* LinkedTrustClient.format_claim(claim)
format_claim(claim) ==
    LET with_date == SetDefault(claim, K_effectiveDate, Now)
        with_how == SetDefault(with_date, K_howKnown,
                               Str(<<"W","E","B","_","D","O","C","U","M","E","N","T">>))
    IN SetDefault(with_how, K_confidence,
                  IF HasKey(with_how, K_statement) THEN Num(<<"0",".","9">>)
                  ELSE Num(<<"0",".","7">>))

\* requests.post(...) followed by response.raise_for_status()
Responses_http == {"ok", "error"}

\* LinkedTrustClient.submit_claim(claim)
submit_claim(private_key, claim, salt, response) ==
    IF ~validate_claim(claim)
    THEN [raised |-> "ValueError", sent |-> FALSE, payload |-> <<>>]
    ELSE LET formatted_claim == format_claim(claim)
             signed_claim == IF private_key # 0
                             THEN lt_sign_claim(private_key, formatted_claim, salt).value
                             ELSE formatted_claim
         IN [raised |-> IF response = "ok" THEN "" ELSE "RequestException",
             sent |-> TRUE, payload |-> signed_claim]

\* BackendAPIClient.create_claim(claim_data)
create_claim(claim_data, response) ==
    IF ~HasKey(claim_data, K_subject) \/ ~HasKey(claim_data, K_claim)
    THEN [raised |-> "ValueError", sent |-> FALSE, payload |-> <<>>]
    ELSE LET claim_payload ==
                 << [k |-> K_subject, v |-> Get(claim_data, K_subject, Null)],
                    [k |-> K_claim, v |-> Get(claim_data, K_claim, Null)],
                    [k |-> K_object, v |-> Get(claim_data, K_object, Null)],
                    [k |-> K_sourceURI, v |-> Get(claim_data, K_sourceURI, Null)],
                    [k |-> K_howKnown, v |-> Get(claim_data, K_howKnown,
                                                  Str(<<"D","E","R","I","V","E","D">>))],
                    [k |-> K_confidence, v |-> Get(claim_data, K_confidence,
                                                    Num(<<"0",".","8">>))],
                    [k |-> K_statement, v |-> Get(claim_data, K_statement, Null)],
                    [k |-> K_aspect, v |-> Get(claim_data, K_aspect, Null)],
                    [k |-> K_effectiveDate, v |-> Get(claim_data, K_effectiveDate, Now)] >>
         IN [raised |-> IF response = "ok" THEN "" ELSE "HTTPError",
             sent |-> TRUE, payload |-> claim_payload]

\* the claims handed to a submission call: each field absent, empty or set
SubmitValues(key) ==
    IF key = K_subject THEN { Str(<<>>), SubjectA }
    ELSE IF key = K_claim THEN { Str(<<>>), Impact, Rated, SameAs,
                                 Str(<<"b","o","g","u","s">>) }
    ELSE IF key = K_statement THEN { Str(<<>>), Str(S9) }
    ELSE { Str(<<"a","b","c">>) }

OptionalField(key) == { <<>> } \cup { << [k |-> key, v |-> val] >> : val \in SubmitValues(key) }

SubmitInputs ==
    { a \o b \o c \o d : a \in OptionalField(K_subject), b \in OptionalField(K_claim),
                         c \in OptionalField(K_statement), d \in OptionalField(K_signature) }

SubmitFrame ==
    /\ UNCHANGED sclaim
    /\ UNCHANGED publishVars
    /\ UNCHANGED lateVars
    /\ UNCHANGED signVars
    /\ UNCHANGED filterVars
    /\ UNCHANGED parseVars

\* linkedtrust_client.submit_claim(sclaim)
LTSubmit(salt, response) ==
    /\ sresult = NoSubmission
    /\ LET result == submit_claim(lt_private_key, sclaim, salt, response)
       IN sresult' = [by |-> "lt", raised |-> result.raised, sent |-> result.sent,
                      payload |-> result.payload]
    /\ SubmitFrame

\* backend_client.create_claim(sclaim)
BackendCreate(response) ==
    /\ sresult = NoSubmission
    /\ LET result == create_claim(sclaim, response)
       IN sresult' = [by |-> "backend", raised |-> result.raised, sent |-> result.sent,
                      payload |-> result.payload]
    /\ SubmitFrame

\* the next claim is handed in
NextSubmission ==
    /\ sresult # NoSubmission
    /\ sresult' = NoSubmission
    /\ SubmitFrame

SubmitInit ==
    /\ private_file = 0 /\ public_file = 0 /\ generated = 0
    /\ private_mode = "none" /\ private_pw = 0 /\ kcall = NoCall
    /\ km_private_key = 0 /\ km_public_key = 0
    /\ lt_private_key \in {0, 1, OtherKey}
    /\ spc = "idle" /\ src = <<>> /\ signed = NoSigned /\ doc = <<>>
    /\ verdict = NoVerdict /\ prev = NoPrev
    /\ FilterIdle
    /\ ParseIdle
    /\ sclaim \in SubmitInputs
    /\ sresult = NoSubmission
    /\ PublishIdle
    /\ LateIdle

SubmitNext ==
    \/ \E salt \in Salts, response \in Responses_http : LTSubmit(salt, response)
    \/ \E response \in Responses_http : BackendCreate(response)
    \/ NextSubmission

SubmitSpec == SubmitInit /\ [][SubmitNext]_vars

(***************************************************************************)
(* The pdf_parser web app: a document is uploaded, its claims are stored   *)
(* as drafts and published to LinkedTrust all at once or one by one.  One  *)
(* entry of extracted_claims is modelled; every upload makes an entry of   *)
(* its own, and a request touches the entry it names only.                 *)
(***************************************************************************)
\* the claim types the extractor may have given a stored claim; the single
\* publish request refuses a claim whose type is empty
StoredClaimTypes == { Impact, Str(<<>>) }

\* claim['status'] = 'draft'; claim['claim_index'] = claim_index
Draft(claim_type) == [claim |-> claim_type, status |-> "draft", posts |-> 0]

\* claim.get('status') == 'draft'
is_draft_mut_always(claim) == TRUE
is_draft(claim) == claim.status = "draft"

\* the outcomes of auth_client.auto_login()
Logins == {"ok", "failed"}

\* the outcomes of requests.post in auth_client.create_claim: a status code,
\* or an exception
PostOutcomes == {"200", "201", "500", "exception"}

\* auth_client.create_claim(payload)["success"]
create_success(outcome) == outcome \in {"200", "201"}

\* missing_fields of the single publish request: with its defaults only an
\* empty claim type is missing
missing_fields(claim) == Falsy(claim.claim)

PublishFrame ==
    /\ UNCHANGED submitVars
    /\ UNCHANGED lateVars
    /\ UNCHANGED signVars
    /\ UNCHANGED filterVars
    /\ UNCHANGED parseVars

\* POST /upload: the claims extracted from the PDF are stored as drafts
Upload(claim_types) ==
    /\ ~uploaded
    /\ uploaded' = TRUE
    /\ stored' = [i \in 1..Len(claim_types) |-> Draft(claim_types[i])]
    /\ UNCHANGED <<auth_client, access_token, preq>>
    /\ PublishFrame

\* the claim after the loop body of publish_claims_to_linkedtrust: the
\* payload is bound to the name inkedtrust_payload, so reading
\* linkedtrust_payload raises NameError, which the body catches
publish_all_claim(claim) ==
    IF is_draft(claim) THEN [claim EXCEPT !.status = "failed"] ELSE claim

\* POST /api/claims/<claim_id>/publish
PublishAll(login) ==
    /\ uploaded
    /\ IF ~auth_client
       THEN /\ preq' = [op |-> "all", index |-> 0, http |-> 500]
            /\ UNCHANGED <<access_token, stored>>
       ELSE IF ~access_token /\ login = "failed"
       THEN /\ preq' = [op |-> "all", index |-> 0, http |-> 401]
            /\ UNCHANGED <<access_token, stored>>
       ELSE /\ access_token' = TRUE
            /\ stored' = [i \in 1..Len(stored) |-> publish_all_claim(stored[i])]
            /\ preq' = [op |-> "all", index |-> 0, http |-> 207]
    /\ UNCHANGED <<auth_client, uploaded>>
    /\ PublishFrame

\* POST /api/claims/<claim_id>/publish/<claim_index>
PublishSingle(claim_index, login, outcome) ==
    /\ uploaded
    /\ LET respond(http) == preq' = [op |-> "single", index |-> claim_index, http |-> http]
       IN IF ~auth_client
          THEN respond(500) /\ UNCHANGED <<access_token, stored>>
          ELSE IF claim_index \notin 1..Len(stored)
          THEN respond(404) /\ UNCHANGED <<access_token, stored>>
          ELSE IF ~is_draft(stored[claim_index])
          THEN respond(400) /\ UNCHANGED <<access_token, stored>>
          ELSE IF ~access_token /\ login = "failed"
          THEN respond(401) /\ UNCHANGED <<access_token, stored>>
          ELSE IF missing_fields(stored[claim_index])
          THEN respond(400) /\ access_token' = TRUE /\ UNCHANGED stored
          ELSE /\ access_token' = TRUE
               /\ stored' = [stored EXCEPT ![claim_index] =
                      [@ EXCEPT !.posts = @ + 1,
                                !.status = IF create_success(outcome)
                                           THEN "published" ELSE "failed"]]
               /\ respond(IF create_success(outcome) THEN 200 ELSE 400)
    /\ UNCHANGED <<auth_client, uploaded>>
    /\ PublishFrame

PublishInit ==
    /\ SignIdle
    /\ FilterIdle
    /\ ParseIdle
    /\ SubmitIdle
    /\ LateIdle
    /\ auth_client \in BOOLEAN
    /\ access_token = FALSE /\ uploaded = FALSE
    /\ stored = <<>> /\ preq = NoRequest

PublishNext ==
    \/ \E claim_types \in SeqsUpTo(StoredClaimTypes, MaxStored) : Upload(claim_types)
    \/ \E login \in Logins : PublishAll(login)
    \/ \E claim_index \in 1..(MaxStored + 1), login \in Logins, outcome \in PostOutcomes :
        PublishSingle(claim_index, login, outcome)

PublishSpec == PublishInit /\ [][PublishNext]_vars

(***************************************************************************)
(* Claims about the filter (checked under FilterSpec).                     *)
(***************************************************************************)
StatementOf(elem) == Get(elem.m, K_statement, Str(<<>>)).s

Rejected(st) ==
    \/ _contains_future_words(st)
    \/ _contains_mission_indicators(st)
    \/ _is_vague_claim(st)

Kept(elem) == \E j \in 1..Len(fout.value) : fout.value[j] = elem

\* C1: a claim whose statement contains a future-tense marker, a
\* mission-statement marker or a vague-claim pattern is dropped, also when the
\* statement contains a listed past-tense verb or a numeral.
C1_RejectionPrecedence ==
    fpc = "done" =>
        /\ fout.raised = ""
        /\ \A i \in 1..Len(fin) : Rejected(StatementOf(fin[i])) => ~Kept(fin[i])

\* "We will vaccinate 5,000 children next year" (future marker and numeral) is
\* dropped next to a claim that is kept
C1_Witness ==
    /\ fpc = "done"
    /\ fin = << Claim(S4), Claim(S1) >>
    /\ has_numbers(S4) /\ _contains_future_words(S4)
    /\ fout.value = << Claim(S1) >>

\* C2: a claim whose statement matches none of the three rejection rules is
\* kept if and only if the statement contains a listed past-tense achievement
\* verb or a numeral.
C2_AcceptanceRule ==
    fpc = "done" =>
        \A i \in 1..Len(fin) :
            ~Rejected(StatementOf(fin[i])) =>
                (Kept(fin[i]) <=>
                    (has_past_tense(StatementOf(fin[i])) \/ has_numbers(StatementOf(fin[i]))))

\* a verb-only statement is kept and a statement with neither is dropped
C2_Witness ==
    /\ fpc = "done"
    /\ fin = << Claim(S9), Claim(S8) >>
    /\ ~Rejected(S9) /\ ~Rejected(S8)
    /\ has_past_tense(S9) /\ ~has_numbers(S9)
    /\ fout.value = << Claim(S9) >>

RECURSIVE SubseqFrom(_, _, _, _)
SubseqFrom(a, i, b, j) ==
    IF i > Len(a) THEN TRUE
    ELSE IF j > Len(b) THEN FALSE
    ELSE IF a[i] = b[j] THEN SubseqFrom(a, i + 1, b, j + 1)
    ELSE SubseqFrom(a, i, b, j + 1)

\* a is b with some of its elements left out
IsSubsequence(a, b) == SubseqFrom(a, 1, b, 1)

\* C8: the filter output is a subsequence of its input (original order, nothing
\* added, duplicated or altered), and the documented scenario yields exactly
\* its first statement.
C8_OutputIsSubsequence ==
    fpc = "done" =>
        /\ IsSubsequence(fout.value, fin)
        /\ fin = Scenario => fout.value = << Claim(S1) >>

\* two different claims, both kept, come out in input order
C8_Witness ==
    /\ fpc = "done"
    /\ \E a, b \in FilterElems :
        /\ a # b
        /\ fin = << a, b >>
        /\ fout.value = << a, b >>


(***************************************************************************)
(* Claims about the signer (checked under SignSpec).                       *)
(***************************************************************************)
ReturnsTrue == [raised |-> "", value |-> TRUE]
ReturnsFalse == [raised |-> "", value |-> FALSE]

\* the verifier holds the public key of the key pair that signed
MatchingKey == signed.key # 0 /\ km_public_key = signed.key

\* the verifier was handed what KeyManager.sign_claim returned, as it is
VerifiedKmSigned ==
    /\ spc = "verified"
    /\ signed.by = "km" /\ signed.raised = ""
    /\ doc = signed.value

\* C3: what KeyManager.sign_claim returns verifies under the matching public
\* key, and so does each of two signings of the same claim with the same key.
C3_RoundTrip ==
    /\ (VerifiedKmSigned /\ MatchingKey) => verdict = ReturnsTrue
    /\ ( /\ prev.verdict # NoVerdict
         /\ signed_content(prev.doc) = signed_content(src)
         /\ prev.key # 0 /\ prev.public_key = prev.key ) => prev.verdict = ReturnsTrue

\* the same claim signed twice with the same key: two different signatures,
\* both verified
C3_Witness ==
    /\ VerifiedKmSigned /\ MatchingKey
    /\ verdict = ReturnsTrue /\ prev.verdict = ReturnsTrue
    /\ prev.key = signed.key
    /\ Len(src) = MaxFields
    /\ signed_content(prev.doc) = signed_content(doc)
    /\ Get(prev.doc, K_signature, Null) # Get(doc, K_signature, Null)

\* the claim handed to the verifier is the signed claim with the value of a
\* field other than the signature changed
Tampered ==
    /\ signed.by = "km" /\ signed.raised = ""
    /\ Len(doc) = Len(signed.value)
    /\ \A i \in 1..Len(doc) : doc[i].k = signed.value[i].k
    /\ \E i \in 1..Len(doc) : doc[i].k # K_signature /\ doc[i].v # signed.value[i].v
    /\ Get(doc, K_signature, Null) = Get(signed.value, K_signature, Null)

\* C4: a signed claim of which a field value other than the signature was
\* changed does not verify under the matching public key.
C4_TamperEvidence ==
    (spc = "verified" /\ Tampered /\ MatchingKey) => verdict = ReturnsFalse

C4_Witness ==
    /\ spc = "verified" /\ Tampered /\ MatchingKey
    /\ verdict = ReturnsFalse
    /\ Len(doc) = MaxFields + 1

\* C5: verify_signature never raises: it returns a boolean for every claim and
\* every state of the key manager.
C5_VerifyNeverRaises ==
    spc = "verified" => verdict.raised = ""

\* C9: every signing operation raises when no private key is loaded.
C9_SignWithoutKeyRaises ==
    (signed.by # "" /\ signed.key = 0) => signed.raised # ""

\* C10: a claim signed by either signer with an RSA private key verifies under
\* the matching public key.
C10_SignVerifyConsistent ==
    ( /\ spc = "verified"
      /\ signed.by \in {"km", "lt"} /\ signed.raised = "" /\ IsRSA(signed.key)
      /\ doc = signed.value
      /\ MatchingKey ) => verdict = ReturnsTrue


(***************************************************************************)
(* Claims about the parser (checked under ParseSpec).                      *)
(***************************************************************************)
\* no part of the text that starts with "[" is a JSON value
NoArrayIn(text) ==
    ~ \E i \in 1..Len(text), j \in 1..Len(text) :
        i <= j /\ text[i].c = "[" /\ json_loads(SubSeq(text, i, j)).ok

\* C6: when the response is not valid JSON and holds no JSON array,
\* extract_claims returns an empty list and does not raise.
C6_ParseFailureNonFatal ==
    ( /\ llm.kind = "content"
      /\ ~json_loads(llm.content).ok
      /\ NoArrayIn(llm.content) ) =>
        /\ pres \in {NotRun, EmptyList}
        /\ pres_pkg \in {NotRun, EmptyList}

\* "not json at all": both extractors have run and returned []
C6_Witness ==
    /\ llm = [kind |-> "content", content |-> << TX, TX, TX >>]
    /\ ~json_loads(llm.content).ok /\ NoArrayIn(llm.content)
    /\ pres = EmptyList
    /\ pres_pkg = EmptyList

IsProse(text) == \A i \in 1..Len(text) : text[i] = TX

\* a JSON array of one or more claim objects
IsClaimArray(text) ==
    LET parsed == json_loads(text) IN
    /\ parsed.ok /\ parsed.t = "list" /\ parsed.value # <<>>
    /\ \A i \in 1..Len(parsed.value) : parsed.value[i].t = "obj"

\* C7: when the response is a JSON array of claim objects with prose before
\* it, after it or both, the parser yields the claims of that array (which
\* extract_claims of src/claim_extractor then filters).
C7_NoiseTolerant ==
    \A a \in 0..Len(llm.content), b \in 0..Len(llm.content) :
        LET pre == SubSeq(llm.content, 1, a)
            array == SubSeq(llm.content, a + 1, b)
            post == SubSeq(llm.content, b + 1, Len(llm.content))
        IN ( /\ llm.kind = "content"
             /\ a <= b
             /\ IsProse(pre) /\ IsProse(post) /\ Len(pre) + Len(post) > 0
             /\ IsClaimArray(array) ) =>
                /\ pres_pkg # NotRun => pres_pkg = Returned(json_loads(array))
                /\ pres # NotRun => pres = Filtered(json_loads(array))


(***************************************************************************)
(* Claims about the key files (checked under KeySpec).                     *)
(***************************************************************************)
\* a call of ensure_keys_exist has returned, and when it was made both key
\* files held one and the same key pair
EnsuredOnPersistedPair ==
    /\ kcall.pc = "returned" /\ kcall.op = "ensure"
    /\ kcall.before_private # 0
    /\ kcall.before_public = kcall.before_private

\* C11: once a key pair is persisted, a call of ensure_keys_exist returns that
\* pair, generates no pair and leaves both key files as they were.
C11_EnsureIdempotent ==
    EnsuredOnPersistedPair =>
        /\ km_private_key = kcall.before_private
        /\ km_public_key = kcall.before_public
        /\ private_file = kcall.before_private
        /\ public_file = kcall.before_public
        /\ generated = kcall.before_generated

\* C16: whenever the private key file holds key material its permission bits
\* are 600, during save_key_pair and ensure_keys_exist as well as after them.
C16_PrivateKeyOwnerOnly ==
    private_file # 0 => private_mode = "600"


(***************************************************************************)
(* Claims about submission (checked under SubmitSpec).                     *)
(***************************************************************************)
\* the claim has a non-empty subject, claim and statement, and its claim is
\* one of impact, rated, same_as
ValidClaim(claim) ==
    /\ \A field \in {K_subject, K_claim, K_statement} :
           /\ HasKey(claim, field)
           /\ Get(claim, field, Null).t = "str"
           /\ Get(claim, field, Null).s # <<>>
    /\ Get(claim, K_claim, Null) \in {Impact, Rated, SameAs}

\* C12: no submission call sends a request for a claim that is not valid; it
\* ends with an error instead.
C12_ValidatedBeforeSubmission ==
    (sresult.by # "" /\ ~ValidClaim(sclaim)) =>
        (~sresult.sent /\ sresult.raised # "")

\* C15: a claim is sent to the registry only with the signature of a signing
\* step on it.
C15_SignedBeforePublished ==
    (sresult.by = "lt" /\ sresult.sent) => HasKey(sresult.payload, K_signature)


(***************************************************************************)
(* More claims about the parser and the filter it calls (ParseSpec).       *)
(***************************************************************************)
\* C13: no exception escapes the filter or extract_claims, whatever the
\* parsed response holds.
C13_FilterNeverFails ==
    pres.raised \in {"", "none"}


(***************************************************************************)
(* Claims about publishing (checked under PublishSpec).                    *)
(***************************************************************************)
\* C14: stored claims start as draft; a step changes a status only from draft
\* to published or failed, and neither changes nor submits again a claim that
\* is not draft.
C14_StatusStateMachine ==
    [][ /\ Len(stored') >= Len(stored)
        /\ \A i \in 1..Len(stored') :
              IF i > Len(stored) THEN stored'[i].status = "draft" /\ stored'[i].posts = 0
              ELSE IF stored[i].status = "draft"
                   THEN /\ stored'[i].status \in {"draft", "published", "failed"}
                        /\ stored'[i].posts \in {stored[i].posts, stored[i].posts + 1}
                        /\ stored'[i].status = "draft" => stored'[i].posts = stored[i].posts
                   ELSE stored'[i] = stored[i] ]_vars

\* a published and a failed claim, each submitted once, after a publish-all
\* request that found no draft and left them as they were
C14_Witness ==
    /\ Len(stored) = MaxStored
    /\ \E i, j \in 1..Len(stored) :
          /\ stored[i].status = "published" /\ stored[i].posts = 1
          /\ stored[j].status = "failed" /\ stored[j].posts = 1
    /\ preq = [op |-> "all", index |-> 0, http |-> 207]


(***************************************************************************)
(* More claims about the signer (checked under SignSpec).                  *)
(***************************************************************************)
\* a claim that carried a signature field when it was handed to
\* KeyManager.sign_claim, signed and handed unchanged to the verifier
VerifiedResigned ==
    /\ VerifiedKmSigned /\ MatchingKey
    /\ HasKey(src, K_signature)

IsFlatArray(text) ==
    /\ (Len(text) = 2 \/ (Len(text) >= 3 /\ Len(text) % 2 = 1))
    /\ text[1].c = "[" /\ text[Len(text)].c = "]"
    /\ \A i \in 2..(Len(text) - 1) : text[i].c = (IF i % 2 = 0 THEN "{" ELSE ",")

\* the objects of such a text, in the order of the text
ArrayElements(text) == [i \in 1..((Len(text) - 1) \div 2) |-> Obj(text[2 * i].m)]

RECURSIVE KeptPositions(_, _, _)
KeptPositions(input, output, i) ==
    IF i > Len(input) THEN {}
    ELSE IF output # <<>> /\ Head(output) = input[i]
         THEN {i} \cup KeptPositions(input, Tail(output), i + 1)
         ELSE KeptPositions(input, output, i + 1)

AllMarkers == Range(future_words) \cup Range(mission_indicators) \cup Range(vague_patterns)

\* C20: the claims kept are the same when the statements are put in another
\* letter case; and a statement that holds a marker anywhere, inside a longer
\* word or after a negation, is dropped.
C20_CaseInsensitiveSubstring ==
    /\ fpc = "cased" =>
          /\ fout.raised = fprev.raised
          /\ KeptPositions(fin, fout.value, 1) = KeptPositions(fprev.input, fprev.value, 1)
    /\ fpc \in {"done", "cased"} =>
          \A i \in 1..Len(fin) :
              (\E marker \in AllMarkers :
                  Contains(StatementOf(IF fpc = "done" THEN fin[i] ELSE fprev.input[i]), marker))
                  => i \notin KeptPositions(fin, fout.value, 1)

\* "Goodwill stores served 200 families" holds "will" inside a word and is
\* dropped, in upper case too, next to a claim kept in both cases
C20_Witness ==
    /\ fpc = "cased"
    /\ fprev.input = << Claim(S15), Claim(S1) >>
    /\ fin = << Claim(Recase(S15, "upper")), Claim(Recase(S1, "upper")) >>
    /\ fin # fprev.input
    /\ fprev.value = << Claim(S1) >>
    /\ fout.value = << Claim(Recase(S1, "upper")) >>

(***************************************************************************)
(* The key files under I/O errors: load_keys, save_key_pair and            *)
(* ensure_keys_exist as whole calls, in an environment where one kind of   *)
(* file operation fails.                                                   *)
(***************************************************************************)
\* the environments of a call: what fails in the key directory
Envs == {"ok", "dir_not_searchable", "private_unreadable", "public_unreadable",
         "write_denied", "disk_full", "chmod_denied", "public_write_denied"}

\* os.stat on a key path fails (EACCES: no search permission on the directory)
stat_fails(env) == env = "dir_not_searchable"

\* os.path.exists(path): False when os.stat raises OSError
path_exists(env, file) == file # 0 /\ ~stat_fails(env)

\* open(path, "rb") and f.read() fail
read_fails(env, which) ==
    \/ env = "dir_not_searchable"
    \/ which = "private" /\ env = "private_unreadable"
    \/ which = "public" /\ env = "public_unreadable"

\* open(path, "wb") fails
open_write_fails(env, which) ==
    \/ env \in {"dir_not_searchable", "write_denied"}
    \/ which = "public" /\ env = "public_write_denied"

\* f.write(pem) fails after open(path, "wb") has created or truncated the file
write_fails(env) == env = "disk_full"

\* os.chmod(private_key_path, 0o600) fails
chmod_fails(env) == env = "chmod_denied"

\* load_keys(password=password) in env: the keys the object holds afterwards,
\* whether an operation on a key file that is there failed, and the exception
\* that leaves the call
load_keys(env, password) ==
    IF path_exists(env, private_file) /\ read_fails(env, "private")
    THEN [private_key |-> km_private_key, public_key |-> km_public_key,
          failed |-> TRUE, raised |-> "OSError"]
    ELSE LET private_key ==
                 IF path_exists(env, private_file)
                 THEN load_pem_private_key(private_file, private_pw, password)
                 ELSE 0
         IN IF path_exists(env, public_file) /\ read_fails(env, "public")
            THEN [private_key |-> private_key, public_key |-> km_public_key,
                  failed |-> TRUE, raised |-> "OSError"]
            ELSE [private_key |-> private_key,
                  public_key |-> IF path_exists(env, public_file) THEN public_file ELSE 0,
                  failed |-> stat_fails(env) /\ (private_mode # "none" \/ public_file # 0),
                  raised |-> ""]

\* save_key_pair(pair, pair.public_key(), password=password) in env: the files
\* afterwards, whether a file operation failed, and the exception raised
save_key_pair(env, pair, password, create_mode) ==
    LET unchanged == [private_file |-> private_file, private_pw |-> private_pw,
                      private_mode |-> private_mode, public_file |-> public_file,
                      failed |-> TRUE, raised |-> "OSError"]
        opened_mode == IF private_mode = "none" THEN create_mode ELSE private_mode
    IN IF open_write_fails(env, "private") THEN unchanged
       ELSE IF write_fails(env)
       THEN [unchanged EXCEPT !.private_file = 0, !.private_pw = 0,
                              !.private_mode = opened_mode]
       ELSE IF chmod_fails(env)
       THEN [unchanged EXCEPT !.private_file = pair, !.private_pw = password,
                              !.private_mode = opened_mode]
       ELSE IF open_write_fails(env, "public")
       THEN [unchanged EXCEPT !.private_file = pair, !.private_pw = password,
                              !.private_mode = "600"]
       ELSE [private_file |-> pair, private_pw |-> password, private_mode |-> "600",
             public_file |-> pair, failed |-> FALSE, raised |-> ""]

KeyIOFrame ==
    /\ UNCHANGED <<kcall, lt_private_key>>
    /\ UNCHANGED roundVars
    /\ UNCHANGED filterVars
    /\ UNCHANGED parseVars
    /\ UNCHANGED submitVars
    /\ UNCHANGED publishVars
    /\ UNCHANGED notKioVars

\* KeyManager(key_dir) on the same directory
IONewKeyManager ==
    /\ kio # NoKeyIO
    /\ km_private_key' = 0
    /\ km_public_key' = 0
    /\ kio' = NoKeyIO
    /\ UNCHANGED <<private_file, public_file, generated, private_mode, private_pw>>
    /\ KeyIOFrame

\* load_keys(password=password) in env
IOLoad(env, password) ==
    /\ LET loaded == load_keys(env, password)
       IN /\ km_private_key' = loaded.private_key
          /\ km_public_key' = loaded.public_key
          /\ kio' = [env |-> env, op |-> "load", failed |-> loaded.failed,
                     raised |-> loaded.raised]
    /\ UNCHANGED <<private_file, public_file, generated, private_mode, private_pw>>
    /\ KeyIOFrame

\* save_key_pair(*generate_key_pair(), password=password) in env
IOSave(env, password, create_mode) ==
    /\ generated < MaxKeyPairs
    /\ generated' = generated + 1
    /\ LET saved == save_key_pair(env, generated + 1, password, create_mode)
       IN /\ private_file' = saved.private_file
          /\ private_pw' = saved.private_pw
          /\ private_mode' = saved.private_mode
          /\ public_file' = saved.public_file
          /\ kio' = [env |-> env, op |-> "save", failed |-> saved.failed,
                     raised |-> saved.raised]
    /\ UNCHANGED <<km_private_key, km_public_key>>
    /\ KeyIOFrame

\* ensure_keys_exist(password=password) in env
IOEnsure(env, password, create_mode) ==
    LET loaded == load_keys(env, password)
        missing == loaded.private_key = 0 \/ loaded.public_key = 0
        saved == save_key_pair(env, generated + 1, password, create_mode)
    IN IF loaded.raised # "" \/ ~missing
       THEN /\ km_private_key' = loaded.private_key
            /\ km_public_key' = loaded.public_key
            /\ kio' = [env |-> env, op |-> "ensure", failed |-> loaded.failed,
                       raised |-> loaded.raised]
            /\ UNCHANGED <<private_file, public_file, generated, private_mode, private_pw>>
            /\ KeyIOFrame
       ELSE /\ generated < MaxKeyPairs
            /\ generated' = generated + 1
            /\ private_file' = saved.private_file
            /\ private_pw' = saved.private_pw
            /\ private_mode' = saved.private_mode
            /\ public_file' = saved.public_file
            /\ km_private_key' = IF saved.raised = "" THEN generated + 1 ELSE loaded.private_key
            /\ km_public_key' = IF saved.raised = "" THEN generated + 1 ELSE loaded.public_key
            /\ kio' = [env |-> env, op |-> "ensure",
                       failed |-> loaded.failed \/ saved.failed,
                       raised |-> saved.raised]
            /\ KeyIOFrame

KeyIOInit ==
    /\ SignIdle
    /\ FilterIdle
    /\ ParseIdle
    /\ ExtIdle

KeyIONext ==
    \/ IONewKeyManager
    \/ \E env \in Envs, password \in Passwords : IOLoad(env, password)
    \/ \E env \in Envs, password \in Passwords, create_mode \in CreateModes :
           IOSave(env, password, create_mode)
    \/ \E env \in Envs, password \in Passwords, create_mode \in CreateModes :
           IOEnsure(env, password, create_mode)

KeyIOSpec == KeyIOInit /\ [][KeyIONext]_vars

(***************************************************************************)
(* Claims about the key files under I/O errors (checked under KeyIOSpec).  *)
(***************************************************************************)
\* C21: a call of load_keys, save_key_pair or ensure_keys_exist in which a
\* file operation failed ends with the exception, it does not return.
C21_KeyIOErrorsPropagate ==
    kio.failed => kio.raised = "OSError"

\* the part of C21 about ensure_keys_exist alone
EnsureRaisesOnIOError ==
    (kio.op = "ensure" /\ kio.failed) => kio.raised = "OSError"

(***************************************************************************)
(* The document manager: process_pdf with the processing cache and the     *)
(* ChromaDB collections, both kept on disk and shared by every             *)
(* DocumentManager made on the same directories.                           *)
(***************************************************************************)
\* the PDF paths: two of them have the same stem
Paths == {"a/report.pdf", "b/report.pdf", "notes.pdf"}

\* Path(pdf_path).stem
Stem(path) == IF path = "notes.pdf" THEN "notes" ELSE "report"

Stems == {Stem(path) : path \in Paths}

\* the contents a PDF can have: a text block "t" or "u", an image "i"
Contents == {<<"t">>, <<"u">>, <<"t", "i">>}

NoHash == -1

\* PDFProcessingCache.get_file_hash
get_file_hash(content) == Digest(content)

\* PDFProcessor.process_pdf: one chunk per block, its id made from the content
\* and the page of the block
Chunks(content) ==
    { [type |-> IF content[i] = "i" THEN "image" ELSE "text",
       chunk_id |-> <<content[i], i>>] : i \in 1..Len(content) }

\* the ids process_pdf adds to a collection: f"{pdf_name}_{chunk.chunk_id}"
ChunkIds(pdf_name, content, type) ==
    { <<pdf_name, chunk.chunk_id>> : chunk \in {c \in Chunks(content) : c.type = type} }

\* PDFProcessingCache.needs_processing
needs_processing_mut_always(meta, content, pdf_name) == TRUE
needs_processing(meta, content, pdf_name) ==
    IF meta[pdf_name] = NoHash THEN TRUE
    ELSE meta[pdf_name] # get_file_hash(content)

\* PDFProcessingCache.reset
cache_reset(meta) == [stem \in Stems |-> NoHash]

DocFrame ==
    /\ UNCHANGED signVars
    /\ UNCHANGED filterVars
    /\ UNCHANGED parseVars
    /\ UNCHANGED submitVars
    /\ UNCHANGED publishVars
    /\ UNCHANGED notDocVars

\* the file at path is replaced by another content
WriteFile(path, content) ==
    /\ pdf_files[path] # content
    /\ pdf_files' = [pdf_files EXCEPT ![path] = content]
    /\ dcall' = [NoDocCall EXCEPT !.op = "write", !.path = path]
    /\ UNCHANGED <<text_collection, image_collection, cache_meta, processor_calls,
                   doc_manager>>
    /\ DocFrame

\* DocumentManager(collection_name, persist_dir, cache_dir) on the same
\* directories: get_or_create_collection finds the collections that exist
NewDocumentManager ==
    /\ doc_manager < MaxManagers
    /\ doc_manager' = doc_manager + 1
    /\ UNCHANGED <<pdf_files, text_collection, image_collection, cache_meta,
                   processor_calls, dcall>>
    /\ DocFrame

\* DocumentManager.reset_collection: both collections are deleted and made
\* anew; the cache directory is not touched
ResetCollection ==
    /\ text_collection' = {}
    /\ image_collection' = {}
    /\ dcall' = [NoDocCall EXCEPT !.op = "reset_collection", !.manager = doc_manager]
    /\ UNCHANGED <<pdf_files, cache_meta, processor_calls, doc_manager>>
    /\ DocFrame

\* DocumentManager.process_pdf(pdf_path, reset)
ProcessPdf(pdf_path, reset) ==
    LET pdf_name == Stem(pdf_path)
        content == pdf_files[pdf_path]
        text0 == IF reset THEN {} ELSE text_collection
        image0 == IF reset THEN {} ELSE image_collection
        meta0 == IF reset THEN cache_reset(cache_meta) ELSE cache_meta
        needed == needs_processing(meta0, content, pdf_name)
    IN /\ needed => processor_calls < MaxProcessed
       /\ processor_calls' = IF needed THEN processor_calls + 1 ELSE processor_calls
       /\ text_collection' =
              IF needed THEN text0 \cup ChunkIds(pdf_name, content, "text") ELSE text0
       /\ image_collection' =
              IF needed THEN image0 \cup ChunkIds(pdf_name, content, "image") ELSE image0
       /\ cache_meta' =
              IF needed THEN [meta0 EXCEPT ![pdf_name] = get_file_hash(content)] ELSE meta0
       /\ dcall' = [op |-> "process", manager |-> doc_manager, path |-> pdf_path,
                    reset |-> reset, needed |-> needed]
       /\ UNCHANGED <<pdf_files, doc_manager>>
       /\ DocFrame

DocInit ==
    /\ SignIdle
    /\ FilterIdle
    /\ ParseIdle
    /\ SubmitIdle
    /\ PublishIdle
    /\ NotDocIdle
    /\ pdf_files \in [Paths -> Contents]
    /\ text_collection = {}
    /\ image_collection = {}
    /\ cache_meta = [stem \in Stems |-> NoHash]
    /\ processor_calls = 0
    /\ doc_manager = 1
    /\ dcall = NoDocCall

DocNext ==
    \/ \E path \in Paths, content \in Contents : WriteFile(path, content)
    \/ NewDocumentManager
    \/ ResetCollection
    \/ \E pdf_path \in Paths, reset \in BOOLEAN : ProcessPdf(pdf_path, reset)

DocSpec == DocInit /\ [][DocNext]_vars

(***************************************************************************)
(* Claims about the processing cache (checked under DocSpec).              *)
(***************************************************************************)
\* the cache entry of the path's stem holds the hash of the file as it is
CacheHit(path) == cache_meta[Stem(path)] = get_file_hash(pdf_files[path])

\* C22: process_pdf(p) right after a completed process_pdf(p), the file not
\* written in between, by the same or by a new DocumentManager, does not call
\* the processor and leaves the collections as they are; and a process_pdf
\* without reset that finds the hash of the file in the cache does neither.
C22_ProcessingCache ==
    /\ [][ (/\ dcall'.op = "process" /\ ~dcall'.reset
            /\ \/ dcall.op = "process" /\ dcall.path = dcall'.path
               \/ CacheHit(dcall'.path))
           => /\ processor_calls' = processor_calls
              /\ text_collection' = text_collection
              /\ image_collection' = image_collection ]_<<dcall, processor_calls, text_collection, image_collection, doc_manager>>
    /\ [][ processor_calls' # processor_calls
           => (dcall'.reset \/ ~CacheHit(dcall'.path)) ]_vars

\* a second DocumentManager has processed an unchanged file again and found
\* it in the cache
C22_Witness ==
    /\ dcall.op = "process" /\ ~dcall.needed /\ ~dcall.reset
    /\ dcall.manager = 2
    /\ processor_calls = 1
    /\ text_collection # {} /\ image_collection # {}

\* C28: whenever the cache says a PDF needs no processing, the collections
\* hold the chunks of that PDF.
C28_CacheCollectionConsistent ==
    \A path \in Paths :
        ~needs_processing(cache_meta, pdf_files[path], Stem(path))
            => /\ ChunkIds(Stem(path), pdf_files[path], "text") \subseteq text_collection
               /\ ChunkIds(Stem(path), pdf_files[path], "image") \subseteq image_collection

(***************************************************************************)
(* Extraction from a URL: extract_claims_from_url fetches the text with    *)
(* requests.get and hands it to extract_claims.                            *)
(***************************************************************************)
\* what requests.get(url) does: it raises for a URL that is no URL
\* (MissingSchema) or that cannot be reached (ConnectionError), else there is
\* a response with a status code
Fetches ==
    { [kind |-> "invalid_url", status |-> 0], [kind |-> "unreachable", status |-> 0] }
    \cup { [kind |-> "response", status |-> code] : code \in {200, 204, 304, 404, 500} }

\* Response.raise_for_status(): HTTPError for a 4xx or 5xx status
raise_for_status(status) == 400 <= status /\ status < 600

\* extract_claims_from_url(url), extracted being what extract_claims of the
\* class does with the text
extract_claims_from_url_mut_no_status_check(by, fetch, response, extracted) ==
    IF fetch.kind = "invalid_url"
    THEN [by |-> by, raised |-> "MissingSchema", llm_invoked |-> FALSE, result |-> NotRun]
    ELSE IF fetch.kind = "unreachable"
    THEN [by |-> by, raised |-> "ConnectionError", llm_invoked |-> FALSE, result |-> NotRun]
    ELSE [by |-> by, raised |-> extracted.raised, llm_invoked |-> TRUE,
          result |-> extracted]
extract_claims_from_url(by, fetch, response, extracted) ==
    IF fetch.kind = "invalid_url"
    THEN [by |-> by, raised |-> "MissingSchema", llm_invoked |-> FALSE, result |-> NotRun]
    ELSE IF fetch.kind = "unreachable"
    THEN [by |-> by, raised |-> "ConnectionError", llm_invoked |-> FALSE, result |-> NotRun]
    ELSE IF raise_for_status(fetch.status)
    THEN [by |-> by, raised |-> "HTTPError", llm_invoked |-> FALSE, result |-> NotRun]
    ELSE [by |-> by, raised |-> extracted.raised, llm_invoked |-> TRUE,
          result |-> extracted]

UrlFrame ==
    /\ UNCHANGED <<llm, url_fetch, pres, parsed_response, pres_pkg>>
    /\ UNCHANGED filterVars
    /\ UNCHANGED signVars
    /\ UNCHANGED submitVars
    /\ UNCHANGED publishVars
    /\ UNCHANGED notUrlVars

\* ClaimExtractor.extract_claims_from_url(url)
ExtractFromUrl ==
    /\ ucall.by # "extractor"
    /\ ucall' = extract_claims_from_url("extractor", url_fetch, llm, extract_claims(llm))
    /\ UrlFrame

\* extract_claims_from_url(url) of the claim_extractor package
ExtractFromUrlPkg ==
    /\ ucall.by # "package"
    /\ ucall' = extract_claims_from_url("package", url_fetch, llm, extract_claims_pkg(llm))
    /\ UrlFrame

\* the LLM responses of the URL runs
UrlResponses == { r \in Responses : Len(r.content) <= 3 }

UrlInit ==
    /\ llm \in UrlResponses
    /\ pres = NotRun
    /\ parsed_response = NotParsed
    /\ pres_pkg = NotRun
    /\ FilterIdle
    /\ SignIdle
    /\ SubmitIdle
    /\ PublishIdle
    /\ NotUrlIdle
    /\ url_fetch \in Fetches
    /\ ucall = NoUrlCall

UrlNext == ExtractFromUrl \/ ExtractFromUrlPkg

UrlSpec == UrlInit /\ [][UrlNext]_vars

(***************************************************************************)
(* Claims about extraction from a URL (checked under UrlSpec).             *)
(***************************************************************************)
FetchFailed ==
    url_fetch.kind # "response" \/ (url_fetch.status >= 400 /\ url_fetch.status <= 599)

\* C23: when the URL is invalid, cannot be reached or answers with an HTTP
\* error status, extract_claims_from_url raises, the LLM is not invoked and
\* no list is returned.
C23_UrlFetchErrorsRaise ==
    (ucall.by # "" /\ FetchFailed)
        => /\ ucall.raised \in {"MissingSchema", "ConnectionError", "HTTPError"}
           /\ ~ucall.llm_invoked
           /\ ucall.result = NotRun

\* the URL answered 404 while the LLM would have returned claims
C23_Witness ==
    /\ ucall.by = "extractor"
    /\ url_fetch = [kind |-> "response", status |-> 404]
    /\ extract_claims(llm).value # <<>>
    /\ ucall.raised = "HTTPError"

(***************************************************************************)
(* Several processes in ensure_keys_exist() on the same key directory.     *)
(* Each process has its own KeyManager; the two key files are shared.  A   *)
(* step is one file operation of one process.                              *)
(***************************************************************************)
Procs == 1..NumProcs

RaceFrame ==
    /\ UNCHANGED <<kcall, km_private_key, km_public_key, lt_private_key>>
    /\ UNCHANGED roundVars
    /\ UNCHANGED filterVars
    /\ UNCHANGED parseVars
    /\ UNCHANGED submitVars
    /\ UNCHANGED publishVars
    /\ UNCHANGED notRaceVars

\* load_keys: the private key file is read
RaceLoadPrivate(p) ==
    /\ procs[p].pc = "start"
    /\ procs' = [procs EXCEPT ![p].pc = "load_public",
                              ![p].private_key = load_pem_private_key(private_file, private_pw, 0)]
    /\ UNCHANGED <<private_file, public_file, generated, private_mode, private_pw>>
    /\ RaceFrame

\* load_keys: the public key file is read; ensure_keys_exist then returns
\* the keys or goes on to generate a pair
RaceLoadPublic(p) ==
    /\ procs[p].pc = "load_public"
    /\ procs' = [procs EXCEPT ![p].public_key = public_file,
                              ![p].pc = IF procs[p].private_key = 0 \/ public_file = 0
                                        THEN "generate" ELSE "done"]
    /\ UNCHANGED <<private_file, public_file, generated, private_mode, private_pw>>
    /\ RaceFrame

\* generate_key_pair()
RaceGenerate(p) ==
    /\ procs[p].pc = "generate"
    /\ generated' = generated + 1
    /\ procs' = [procs EXCEPT ![p].pc = "save", ![p].pair = generated + 1]
    /\ UNCHANGED <<private_file, public_file, private_mode, private_pw>>
    /\ RaceFrame

\* save_key_pair: the private key file is written
RaceWritePrivate(p, create_mode) ==
    /\ procs[p].pc = "save"
    /\ private_file' = procs[p].pair
    /\ private_pw' = 0
    /\ private_mode' = IF private_mode = "none" THEN create_mode ELSE private_mode
    /\ procs' = [procs EXCEPT ![p].pc = "written"]
    /\ UNCHANGED <<public_file, generated>>
    /\ RaceFrame

\* save_key_pair: os.chmod(private_key_path, 0o600)
RaceChmod(p) ==
    /\ procs[p].pc = "written"
    /\ private_mode' = "600"
    /\ procs' = [procs EXCEPT ![p].pc = "chmod"]
    /\ UNCHANGED <<private_file, public_file, generated, private_pw>>
    /\ RaceFrame

\* save_key_pair: the public key file is written; ensure_keys_exist keeps the
\* new pair and returns
RaceWritePublic(p) ==
    /\ procs[p].pc = "chmod"
    /\ public_file' = procs[p].pair
    /\ procs' = [procs EXCEPT ![p].pc = "done", ![p].private_key = procs[p].pair,
                              ![p].public_key = procs[p].pair]
    /\ UNCHANGED <<private_file, generated, private_mode, private_pw>>
    /\ RaceFrame

RaceInit ==
    /\ SignIdle
    /\ FilterIdle
    /\ ParseIdle
    /\ SubmitIdle
    /\ PublishIdle
    /\ NotRaceIdle
    /\ procs = [p \in Procs |-> [pc |-> "start", private_key |-> 0, public_key |-> 0,
                                 pair |-> 0]]

RaceNext ==
    \E p \in Procs :
        \/ RaceLoadPrivate(p)
        \/ RaceLoadPublic(p)
        \/ RaceGenerate(p)
        \/ \E create_mode \in CreateModes : RaceWritePrivate(p, create_mode)
        \/ RaceChmod(p)
        \/ RaceWritePublic(p)

RaceSpec == RaceInit /\ [][RaceNext]_vars

(***************************************************************************)
(* Claims about the key-generation race (checked under RaceSpec).          *)
(***************************************************************************)
AllDone == \A p \in Procs : procs[p].pc = "done"

\* C24: once every process has finished ensure_keys_exist, the two key files
\* hold the same pair, so that a claim signed with the reloaded private key
\* verifies with the reloaded public key.
C24_RaceLeavesOnePair ==
    AllDone =>
        /\ private_file # 0 /\ private_file = public_file
        /\ verify_signature(public_file,
                            sign_claim(private_file, Claim(S1).m, 0).value).value

(***************************************************************************)
(* Batch submission: LinkedTrustClient.submit_claims_batch and             *)
(* BackendAPIClient.batch_create_claims.  `responses` gives, for each      *)
(* position of the input, what the HTTP request of that claim does.        *)
(***************************************************************************)
\* the loop of submit_claims_batch from claim i on: every claim is tried, its
\* outcome appended to results, an exception of submit_claim caught
RECURSIVE submit_claims_batch_loop(_, _, _, _, _, _)
submit_claims_batch_loop(private_key, claims, i, salt, responses, acc) ==
    IF i > Len(claims) THEN acc
    ELSE LET result == submit_claim(private_key, claims[i], salt, responses[i])
             outcome == [success |-> result.raised = "", claim |-> claims[i],
                         error |-> result.raised]
         IN submit_claims_batch_loop(private_key, claims, i + 1, salt, responses,
                [acc EXCEPT !.attempts = Append(@, [claim |-> claims[i], sent |-> result.sent,
                                          raised |-> result.raised]),
                            !.results = Append(@, outcome)])

\* the loop with an exception of submit_claim leaving the batch
RECURSIVE submit_claims_batch_mut_abort(_, _, _, _, _, _)
submit_claims_batch_mut_abort(private_key, claims, i, salt, responses, acc) ==
    IF i > Len(claims) THEN acc
    ELSE LET result == submit_claim(private_key, claims[i], salt, responses[i])
             outcome == [success |-> result.raised = "", claim |-> claims[i],
                         error |-> result.raised]
             next == [acc EXCEPT !.attempts = Append(@, [claim |-> claims[i], sent |-> result.sent,
                                          raised |-> result.raised])]
         IN IF result.raised # "" THEN [next EXCEPT !.raised = result.raised]
            ELSE submit_claims_batch_mut_abort(private_key, claims, i + 1, salt, responses,
                     [next EXCEPT !.results = Append(@, outcome)])

\* LinkedTrustClient.submit_claims_batch(claims)
submit_claims_batch_mut_first_error(private_key, claims, salt, responses) ==
    submit_claims_batch_mut_abort(private_key, claims, 1, salt, responses,
                                  [NoBatch EXCEPT !.by = "lt"])
submit_claims_batch(private_key, claims, salt, responses) ==
    submit_claims_batch_loop(private_key, claims, 1, salt, responses,
                             [NoBatch EXCEPT !.by = "lt"])

\* the loop of batch_create_claims from claim i on: a result goes to results,
\* an exception of create_claim to errors
RECURSIVE batch_create_claims_loop(_, _, _, _)
batch_create_claims_loop(claims, i, responses, acc) ==
    IF i > Len(claims) THEN acc
    ELSE LET result == create_claim(claims[i], responses[i])
             attempted == [acc EXCEPT !.attempts =
                               Append(@, [claim |-> claims[i], sent |-> result.sent,
                                          raised |-> result.raised])]
         IN batch_create_claims_loop(claims, i + 1, responses,
                IF result.raised = ""
                THEN [attempted EXCEPT !.results =
                          Append(@, [success |-> TRUE, claim |-> claims[i], error |-> ""])]
                ELSE [attempted EXCEPT !.errors =
                          Append(@, [success |-> FALSE, claim |-> claims[i],
                                     error |-> result.raised])])

\* BackendAPIClient.batch_create_claims(claims)
batch_create_claims(claims, responses) ==
    batch_create_claims_loop(claims, 1, responses, [NoBatch EXCEPT !.by = "backend"])

BatchFrame ==
    /\ UNCHANGED bclaims
    /\ UNCHANGED signVars
    /\ UNCHANGED filterVars
    /\ UNCHANGED parseVars
    /\ UNCHANGED submitVars
    /\ UNCHANGED publishVars
    /\ UNCHANGED notBatchVars

\* linkedtrust_client.submit_claims_batch(bclaims)
LTBatch(salt, responses) ==
    /\ bresult.by # "lt"
    /\ bresult' = submit_claims_batch(lt_private_key, bclaims, salt, responses)
    /\ BatchFrame

\* backend_client.batch_create_claims(bclaims)
BackendBatch(responses) ==
    /\ bresult.by # "backend"
    /\ bresult' = batch_create_claims(bclaims, responses)
    /\ BatchFrame

\* the claims of a batch: valid ones, and ones that validation or create_claim
\* turns down
BatchClaims ==
    { Claim(S9).m, Claim(S1).m,
      << [k |-> K_subject, v |-> SubjectA] >>,
      << [k |-> K_subject, v |-> SubjectA], [k |-> K_claim, v |-> Impact] >> }

BatchInit ==
    /\ private_file = 0 /\ public_file = 0 /\ generated = 0
    /\ private_mode = "none" /\ private_pw = 0 /\ kcall = NoCall
    /\ km_private_key = 0 /\ km_public_key = 0
    /\ lt_private_key \in {0, 1}
    /\ spc = "idle" /\ src = <<>> /\ signed = NoSigned /\ doc = <<>>
    /\ verdict = NoVerdict /\ prev = NoPrev
    /\ FilterIdle
    /\ ParseIdle
    /\ SubmitIdle
    /\ PublishIdle
    /\ NotBatchIdle
    /\ bclaims \in SeqsUpTo(BatchClaims, MaxClaims)
    /\ bresult = NoBatch

BatchNext ==
    \/ \E salt \in Salts, responses \in [1..Len(bclaims) -> Responses_http] :
           LTBatch(salt, responses)
    \/ \E responses \in [1..Len(bclaims) -> Responses_http] : BackendBatch(responses)

BatchSpec == BatchInit /\ [][BatchNext]_vars

(***************************************************************************)
(* Claims about batch submission (checked under BatchSpec).                *)
(***************************************************************************)
\* the claims of the attempts that ended as `ok` says, in order
RECURSIVE AttemptsThat(_, _, _)
AttemptsThat(attempts, ok, i) ==
    IF i > Len(attempts) THEN <<>>
    ELSE (IF (attempts[i].raised = "") = ok THEN << attempts[i].claim >> ELSE <<>>)
         \o AttemptsThat(attempts, ok, i + 1)

ClaimsOf(outcomes) == [i \in 1..Len(outcomes) |-> outcomes[i].claim]

\* C29: a batch call tries every input claim once, in input order, whatever
\* happened to the claims before it, and records every claim in exactly one
\* outcome; no error leaves the batch.
C29_BatchIsolatesFailures ==
    bresult.by # "" =>
        /\ bresult.raised = ""
        /\ Len(bresult.attempts) = Len(bclaims)
        /\ \A i \in 1..Len(bclaims) :
               /\ bresult.attempts[i].claim = bclaims[i]
               /\ bresult.attempts[i].sent =
                      IF bresult.by = "lt" THEN ValidClaim(bclaims[i])
                      ELSE HasKey(bclaims[i], K_subject) /\ HasKey(bclaims[i], K_claim)
        /\ Len(bresult.results) + Len(bresult.errors) = Len(bclaims)
        /\ bresult.by = "lt" =>
               \A i \in 1..Len(bclaims) :
                   /\ bresult.results[i].claim = bclaims[i]
                   /\ bresult.results[i].success = (bresult.attempts[i].raised = "")
        /\ bresult.by = "backend" =>
               /\ ClaimsOf(bresult.results) = AttemptsThat(bresult.attempts, TRUE, 1)
               /\ ClaimsOf(bresult.errors) = AttemptsThat(bresult.attempts, FALSE, 1)

\* a batch whose first claim fails and whose last claim was still sent
C29_Witness ==
    /\ bresult.by = "lt"
    /\ Len(bclaims) = MaxClaims
    /\ ~bresult.results[1].success
    /\ bresult.results[Len(bclaims)].success
    /\ bresult.attempts[Len(bclaims)].sent

(***************************************************************************)
(* Approval of pending claims: PendingClaimsStore and the /approve-claims  *)
(* endpoint.  The Flask server handles requests in threads, so the steps   *)
(* of two approve requests interleave at the file operations.              *)
(***************************************************************************)
ApprovalIds == {"a", "b"}
Requests == {"first", "second"}

NoPendingFile == [status |-> "absent", claims |-> <<>>, approved_claim_ids |-> <<>>]
NoRequestYet == [pc |-> "idle", approval_id |-> "", approved_claim_ids |-> <<>>,
                 data |-> NoPendingFile, raised |-> ""]

\* the claims an extraction stored
ClaimP == Claim(S9).m
ClaimQ == Claim(S1).m
ClaimR == << [k |-> K_subject, v |-> SubjectA] >>
StoredLists == { <<>>, << ClaimP >>, << ClaimP, ClaimQ, ClaimR >> }

\* approved_indices of a request: positions counted from 0, with a repeated
\* one, ones out of order and ones out of range
ApprovedIds == { <<>>, <<0>>, <<2, 0>>, <<1, 1>>, <<7, 1>>, <<-1>> }

\* [claim for i, claim in enumerate(data['claims']) if i in approved_claim_ids]
RECURSIVE approved_from(_, _, _)
approved_from(claims, approved_claim_ids, i) ==
    IF i > Len(claims) THEN <<>>
    ELSE (IF \E k \in 1..Len(approved_claim_ids) : approved_claim_ids[k] = i - 1
          THEN << claims[i] >> ELSE <<>>)
         \o approved_from(claims, approved_claim_ids, i + 1)

RECURSIVE approved_by_index(_, _, _)
approved_by_index(claims, approved_claim_ids, k) ==
    IF k > Len(approved_claim_ids) THEN <<>>
    ELSE (IF approved_claim_ids[k] >= 0 /\ approved_claim_ids[k] < Len(claims)
          THEN << claims[approved_claim_ids[k] + 1] >> ELSE <<>>)
         \o approved_by_index(claims, approved_claim_ids, k + 1)

approved_claims_mut_by_index(claims, approved_claim_ids) ==
    approved_by_index(claims, approved_claim_ids, 1)
approved_claims(claims, approved_claim_ids) ==
    approved_from(claims, approved_claim_ids, 1)

ApproveFrame ==
    /\ UNCHANGED signVars
    /\ UNCHANGED filterVars
    /\ UNCHANGED parseVars
    /\ UNCHANGED submitVars
    /\ UNCHANGED publishVars
    /\ UNCHANGED notApproveVars

\* store_pending_claims(session_id, claims): a file under a new approval_id
StorePending(approval_id, claims) ==
    /\ pending[approval_id] = NoPendingFile
    /\ \A r \in Requests : areqs[r].approval_id # approval_id
    /\ pending' = [pending EXCEPT ![approval_id] =
                       [status |-> "pending", claims |-> claims,
                        approved_claim_ids |-> <<>>]]
    /\ UNCHANGED <<backend_log, areqs>>
    /\ ApproveFrame

\* approve_claims(approval_id, approved_claim_ids) up to the submission:
\* get_pending_claims reads the file, and the two tests raise ValueError
ApproveRead(r, approval_id, approved_claim_ids) ==
    /\ areqs[r].pc = "idle"
    /\ LET data == pending[approval_id]
       IN areqs' = [areqs EXCEPT ![r] =
              [pc |-> IF data = NoPendingFile \/ data.status # "pending"
                      THEN "raised" ELSE "checked",
               approval_id |-> approval_id,
               approved_claim_ids |-> approved_claim_ids,
               data |-> data,
               raised |-> IF data = NoPendingFile \/ data.status # "pending"
                          THEN "ValueError" ELSE ""]]
    /\ UNCHANGED <<pending, backend_log>>
    /\ ApproveFrame

\* approve_claims: the approved claims are handed to batch_create_claims
ApproveSubmit(r, response) ==
    /\ areqs[r].pc = "checked"
    /\ LET approved == approved_claims(areqs[r].data.claims, areqs[r].approved_claim_ids)
           results == batch_create_claims(approved, [i \in 1..Len(approved) |-> response])
       IN backend_log' = backend_log \o
              [i \in 1..Len(approved) |->
                  [request |-> r, approval_id |-> areqs[r].approval_id,
                   claim |-> results.attempts[i].claim, sent |-> results.attempts[i].sent]]
    /\ areqs' = [areqs EXCEPT ![r].pc = "submitted"]
    /\ UNCHANGED pending
    /\ ApproveFrame

\* approve_claims: the file is written back with status processed
ApproveWrite(r) ==
    /\ areqs[r].pc = "submitted"
    /\ pending' = [pending EXCEPT ![areqs[r].approval_id] =
                       [status |-> "processed", claims |-> areqs[r].data.claims,
                        approved_claim_ids |-> areqs[r].approved_claim_ids]]
    /\ areqs' = [areqs EXCEPT ![r].pc = "done"]
    /\ UNCHANGED backend_log
    /\ ApproveFrame

ApproveInit ==
    /\ SignIdle
    /\ FilterIdle
    /\ ParseIdle
    /\ SubmitIdle
    /\ PublishIdle
    /\ NotApproveIdle
    /\ pending = [approval_id \in ApprovalIds |-> NoPendingFile]
    /\ backend_log = <<>>
    /\ areqs = [r \in Requests |-> NoRequestYet]

ApproveNext ==
    \/ \E approval_id \in ApprovalIds, claims \in StoredLists :
           StorePending(approval_id, claims)
    \/ \E r \in Requests, approval_id \in ApprovalIds,
          approved_claim_ids \in ApprovedIds :
           ApproveRead(r, approval_id, approved_claim_ids)
    \/ \E r \in Requests, response \in Responses_http : ApproveSubmit(r, response)
    \/ \E r \in Requests : ApproveWrite(r)

ApproveSpec == ApproveInit /\ [][ApproveNext]_vars

(***************************************************************************)
(* Claims about approvals (checked under ApproveSpec).                     *)
(***************************************************************************)
Submitted(r) == areqs[r].pc \in {"submitted", "done"}

\* C25: the claims of one approval_id reach the backend client from one
\* approve request only; every other request for that id ends with an error
\* and hands nothing over.
C25_ApprovalProcessedOnce ==
    /\ \A i, j \in 1..Len(backend_log) :
           backend_log[i].approval_id = backend_log[j].approval_id
               => backend_log[i].request = backend_log[j].request
    /\ \A r \in Requests :
           (areqs[r].pc = "raised" /\ areqs[r].data # NoPendingFile)
               => areqs[r].data.status = "processed"

\* what request r handed to the backend client, in order
RECURSIVE LogOf(_, _)
LogOf(r, i) ==
    IF i > Len(backend_log) THEN <<>>
    ELSE (IF backend_log[i].request = r THEN << backend_log[i].claim >> ELSE <<>>)
         \o LogOf(r, i + 1)

\* the positions (from 1) of the stored claims that the request lists
ListedPositions(r) ==
    { p \in 1..Len(areqs[r].data.claims) :
          \E k \in 1..Len(areqs[r].approved_claim_ids) :
              areqs[r].approved_claim_ids[k] = p - 1 }

\* the elements of a set of numbers in increasing order
RECURSIVE Ascending(_)
Ascending(S) ==
    IF S = {} THEN <<>>
    ELSE LET least == CHOOSE x \in S : \A y \in S : x <= y
         IN << least >> \o Ascending(S \ {least})

K_id == <<"i","d">>
K_page == <<"p","a","g","e">>
K_sourceText == <<"s","o","u","r","c","e","T","e","x","t">>
K_original_id == <<"o","r","i","g","i","n","a","l","_","i","d">>

\* {k: v for k, v in claim.items() if k not in ['id', 'page', 'sourceText']}
RECURSIVE clean_claim(_)
clean_claim(claim) ==
    IF claim = <<>> THEN <<>>
    ELSE (IF Head(claim).k \in {K_id, K_page, K_sourceText} THEN <<>> ELSE << Head(claim) >>)
         \o clean_claim(Tail(claim))

\* the body of the loop of /sign for one claim
sign_endpoint_claim(private_key, claim, salt) ==
    LET signed_claim == sign_claim(private_key, clean_claim(claim), salt).value
    IN SetItem(signed_claim, K_original_id, Get(claim, K_id, Null))

DemoFrame ==
    /\ UNCHANGED <<lt_private_key, kcall>>
    /\ UNCHANGED roundVars
    /\ UNCHANGED filterVars
    /\ UNCHANGED parseVars
    /\ UNCHANGED submitVars
    /\ UNCHANGED publishVars
    /\ UNCHANGED notDemoVars

\* POST /sign with one claim: ensure_keys_exist(), then the claim is signed
DemoSign(salt) ==
    /\ dsigned = NoSignResponse
    /\ generated' = generated + 1
    /\ private_file' = generated + 1
    /\ public_file' = generated + 1
    /\ km_private_key' = generated + 1
    /\ km_public_key' = generated + 1
    /\ private_mode' = "600"
    /\ private_pw' = 0
    /\ dsigned' = [status |-> 200,
                   signed_claim |-> sign_endpoint_claim(generated + 1, dreq, salt)]
    /\ UNCHANGED <<dreq, dposted>>
    /\ DemoFrame

\* POST /publish with the signed claim: LinkedTrustClient(api_key, endpoint)
\* and submit_claims_batch, which calls submit_claim
DemoPublish(salt, response) ==
    /\ dsigned.status = 200
    /\ dposted = NoPost
    /\ LET result == submit_claim(lt_private_key, dsigned.signed_claim, salt, response)
       IN dposted' = [sent |-> result.sent, raised |-> result.raised,
                      payload |-> result.payload]
    /\ UNCHANGED <<dreq, dsigned>>
    /\ UNCHANGED <<private_file, public_file, generated, private_mode, private_pw,
                   km_private_key, km_public_key>>
    /\ DemoFrame

\* the claims of a /sign request: with or without an id and a page
DemoClaims ==
    { Claim(st).m \o id \o page :
          st \in {S9, S1},
          id \in { <<>>, << [k |-> K_id, v |-> Num(<<"7">>)] >> },
          page \in { <<>>, << [k |-> K_page, v |-> Num(<<"2">>)] >> } }

DemoInit ==
    /\ private_file = 0 /\ public_file = 0 /\ generated = 0
    /\ private_mode = "none" /\ private_pw = 0 /\ kcall = NoCall
    /\ km_private_key = 0 /\ km_public_key = 0
    /\ lt_private_key \in {0, 1}
    /\ spc = "idle" /\ src = <<>> /\ signed = NoSigned /\ doc = <<>>
    /\ verdict = NoVerdict /\ prev = NoPrev
    /\ FilterIdle
    /\ ParseIdle
    /\ SubmitIdle
    /\ PublishIdle
    /\ NotDemoIdle
    /\ dreq \in DemoClaims
    /\ dsigned = NoSignResponse
    /\ dposted = NoPost

DemoNext ==
    \/ \E salt \in Salts : DemoSign(salt)
    \/ \E salt \in Salts, response \in Responses_http : DemoPublish(salt, response)

DemoSpec == DemoInit /\ [][DemoNext]_vars

(***************************************************************************)
(* Claims about the signed claims handed out (checked under DemoSpec).     *)
(***************************************************************************)
\* the signature of the mapping is one KeyManager.sign_claim makes over its
\* other fields
ValidKeyManagerSignature(public_key, claim) ==
    verify_signature(public_key, claim).value

\* the signature of the mapping is one LinkedTrustClient.sign_claim makes over
\* its other fields
ValidClientSignature(private_key, claim) ==
    \E salt \in Salts :
        Get(claim, K_signature, Null) =
            Str(hex(rsa_sign(private_key, lt_message(Pop(claim, K_signature)), salt)))

\* C26: the signed claim /sign returns, and a payload submit_claim posts with
\* a signature, carries a signature that is valid over all its other fields.
C26_HandedOutClaimsVerify ==
    /\ dsigned.status = 200
           => ValidKeyManagerSignature(km_public_key, dsigned.signed_claim)
    /\ (dposted.sent /\ HasKey(dposted.payload, K_signature))
           => \/ ValidKeyManagerSignature(km_public_key, dposted.payload)
              \/ ValidClientSignature(1, dposted.payload)

\* the part of C26 about a payload that LinkedTrustClient has signed itself
ClientSignedPayloadVerifies ==
    (dposted.sent /\ lt_private_key # 0)
        => ValidClientSignature(lt_private_key, dposted.payload)

(***************************************************************************)
(* More claims about publishing (checked under PublishSpec).               *)
(***************************************************************************)
\* C27: a publish-all request that gets past authentication submits every
\* stored draft claim with all required fields to the registry once, and the
\* claim ends published or failed.
C27_PublishAllOutcome ==
    [][ (preq' = [op |-> "all", index |-> 0, http |-> 207] /\ Len(stored') = Len(stored))
            => \A i \in 1..Len(stored) :
                   (is_draft(stored[i]) /\ ~missing_fields(stored[i]))
                       => /\ stored'[i].posts = stored[i].posts + 1
                          /\ stored'[i].status \in {"published", "failed"} ]_vars

====
